---------------------------- MODULE Spec2Model ----------------------------
(***************************************************************************)
(* Indoor haptic/audio navigation: the navigation session owned by         *)
(* AppContext (routes, navigationState and the commands that change it),   *)
(* the arrival detector of the useIndoorNavigation hook (waypoint-change   *)
(* reset effect, Policy A and Policy B evaluation intervals, the 300 ms    *)
(* settle timeout that commits an advance) and the calibration screen's    *)
(* waypoint authoring.                                                     *)
(*                                                                         *)
(* Time.  The code stores Date.now() in refs and compares differences with *)
(* its constants.  The model stores, for every such ref, the time elapsed  *)
(* since the stored instant (Date.now() - ref), in ms, saturated at the    *)
(* largest constant it is compared with; timers store the time remaining   *)
(* until they are due.  TimeElapses moves the clock by 100 ms, the common  *)
(* divisor of every period and delay of the code, and only when no timer   *)
(* is due: a due timer fires before later time is observed.                *)
(*                                                                         *)
(* Rendering.  A handler that sets React state is followed by the render   *)
(* it causes and by the effects of that render; the model runs them in the *)
(* same step (RunEffects).  The evaluation interval is re-created by the   *)
(* auto-advance effect on every change of heading, navigationState or      *)
(* routes, so its closure always holds the rendered values; a settle       *)
(* timeout is never re-created, so it keeps the advanceToNextWaypoint      *)
(* (and the routes that one closed over) of the render that scheduled it.  *)
(***************************************************************************)
EXTENDS Integers, Sequences, FiniteSets, TLC

VARIABLES
    routes,               \* AppContext: routes, routeId -> waypoints of the route
    nav,                  \* AppContext: navigationState
    heading,              \* useIndoorNavigation: heading state (NoHeading = null)
    hook,                 \* useIndoorNavigation: the refs of the mounted hook
    timeouts,             \* pending setTimeout(..., 300) settle callbacks
    calRouteId,           \* CalibrationScreen: currentRouteId
    calWaypoints,         \* CalibrationScreen: waypoints
    lastOp,               \* history: the handler that ran last and its outcome
    stopped,              \* history: the session was ended by stopNavigation
    segment,              \* history: the heading the current segment began with
                          \*   and whether a tick saw the heading leave it
    stepHook,             \* StepNavigationScreen / useStepBasedNavigation: refs
    input,                \* arguments drawn for the pure functions
    output,               \* what the pure functions returned for input
    haptic,               \* HapticDynamicNavigationScreen: focus, refs, timers
    movement,             \* useHeadingBasedNavigation: refs, accelerometer
                          \*   state, the status of the last render
    second                \* a second mounted screen that calls
                          \*   useIndoorNavigation: its refs, its settle timeouts

vars == <<routes, nav, heading, hook, timeouts,
          calRouteId, calWaypoints, lastOp, stopped,
          segment, stepHook, input, output, haptic, movement, second>>

----------------------------------------------------------------------------
(* Bounds of the model *)

MaxWaypoints == 2
MaxSteps == 1
MaxRequiredSteps == 2
MaxSamples == 5

----------------------------------------------------------------------------
(* Values *)

Null == "null"
NoHeading == -1
NoTime == -1
NoSteps == -1
NoError == 1000

RouteIds == {"r1", "r2"}
UnknownRouteId == "r0"
FeedbackModes == {"audio", "dynamic_haptic"}
Headings == {0, 90}
TargetHeadings == {NoHeading, 90}

DEFAULT_THRESHOLD == 15
alignThresholdDeg == 10
ALIGNMENT_CHECK_INTERVAL == 200
ADVANCE_CONFIRMATION_MS == 300
HEADING_CHANGE_THRESHOLD == 20
HEADING_STABLE_DURATION == 1500
POLICY_B_INTERVAL == 300
SETTLE_DELAY == 300
DIRECTION_CHECK_INTERVAL == 200
STEP_FEEDBACK_DELAY == 100

Waypoint(ord, th) == [order |-> ord, targetHeading |-> th]
NoWaypoint == [order |-> -1, targetHeading |-> NoHeading]

\* The routes a researcher can have calibrated: order = position, 0-based.
RouteShapes ==
    UNION { { [i \in 1..n |-> Waypoint(i - 1, f[i])] : f \in [1..n -> TargetHeadings] }
            : n \in 0..MaxWaypoints }

\* The repositories navigation starts from: r1 is any route, r2 is empty or has
\* a single waypoint.
Repositories ==
    { rts \in [RouteIds -> RouteShapes] : Len(rts["r2"]) <= 1 }

Abs(x) == IF x < 0 THEN -x ELSE x
Saturate(x, cap) == IF x > cap THEN cap ELSE x

Min(a, b) == IF a <= b THEN a ELSE b
Max(a, b) == IF a >= b THEN a ELSE b

\* The JavaScript numbers that are not whole are kept exact, as num / den
\* with den > 0.
Ratio(num, den) == [num |-> num, den |-> den]
RatioLeq(p, q) == p.num * q.den <= q.num * p.den
RatioEq(p, q) == p.num * q.den = q.num * p.den

----------------------------------------------------------------------------
(* Geometry *)

RECURSIVE WhileAbove180(_)
WhileAbove180(diff) == IF diff > 180 THEN WhileAbove180(diff - 360) ELSE diff

RECURSIVE WhileBelowMinus180(_)
WhileBelowMinus180(diff) == IF diff < -180 THEN WhileBelowMinus180(diff + 360) ELSE diff

\* Mutant: the difference is taken from the target to the current heading.
normalizeAngleDiff_FromTarget(currentDeg, targetDeg) ==
    WhileBelowMinus180(WhileAbove180(currentDeg - targetDeg))

\* Mutant: the second loop (while (diff < -180) diff += 360) is missing.
normalizeAngleDiff_NoWrapUp(currentDeg, targetDeg) ==
    WhileAbove180(targetDeg - currentDeg)

normalizeAngleDiff(currentDeg, targetDeg) ==
    WhileBelowMinus180(WhileAbove180(targetDeg - currentDeg))

----------------------------------------------------------------------------
(* AppContext: the navigation session *)

InitialNavigationState ==
    [routeId |-> Null, currentWaypointIndex |-> 0, isActive |-> FALSE,
     feedbackMode |-> Null, reachedCurrentWaypoint |-> FALSE, currentStepCount |-> 0]

getRoute(rts, routeId) == IF routeId \in DOMAIN rts THEN rts[routeId] ELSE <<>>
routeFound(rts, routeId) == routeId \in DOMAIN rts

\* startNavigation's guard: the route exists and has a waypoint.
startAccepted(rts, routeId) ==
    routeFound(rts, routeId) /\ Len(getRoute(rts, routeId)) # 0

\* Mutant: spreads the previous state and forgets to reset the two trackers.
startNavigationState_KeepsTrackers(routeId, feedbackMode) ==
    [nav EXCEPT !.routeId = routeId, !.currentWaypointIndex = 0,
                !.isActive = TRUE, !.feedbackMode = feedbackMode]

startNavigationState(routeId, feedbackMode) ==
    [routeId |-> routeId, currentWaypointIndex |-> 0, isActive |-> TRUE,
     feedbackMode |-> feedbackMode, reachedCurrentWaypoint |-> FALSE,
     currentStepCount |-> 0]

\* Mutant: a stop that also rewinds the session to the first waypoint.
stopNavigationState_ResetsIndex(prev) ==
    [prev EXCEPT !.isActive = FALSE, !.reachedCurrentWaypoint = FALSE,
                 !.currentStepCount = 0, !.currentWaypointIndex = 0]

stopNavigationState(prev) ==
    [prev EXCEPT !.isActive = FALSE, !.reachedCurrentWaypoint = FALSE,
                 !.currentStepCount = 0]

\* Whether advanceToNextWaypoint's updater returns a new state object (and so
\* causes a render): it returns prev itself without a routeId or a route.
advanceApplies(prev, rts) == prev.routeId # Null /\ routeFound(rts, prev.routeId)

\* Mutant: the end-of-route test is off by one (> for >=).
advanceToNextWaypointState_OffByOne(prev, rts) ==
    IF ~advanceApplies(prev, rts) THEN prev
    ELSE LET nextIndex == prev.currentWaypointIndex + 1
         IN IF nextIndex > Len(getRoute(rts, prev.routeId))
            THEN [prev EXCEPT !.isActive = FALSE, !.reachedCurrentWaypoint = FALSE]
            ELSE [prev EXCEPT !.currentWaypointIndex = nextIndex,
                              !.reachedCurrentWaypoint = FALSE,
                              !.currentStepCount = 0]

\* Mutant: the end of the route wraps to the first waypoint instead of
\* deactivating the session.
advanceToNextWaypointState_Wraps(prev, rts) ==
    IF ~advanceApplies(prev, rts) THEN prev
    ELSE LET nextIndex == prev.currentWaypointIndex + 1
         IN IF nextIndex >= Len(getRoute(rts, prev.routeId))
            THEN [prev EXCEPT !.currentWaypointIndex = 0,
                              !.reachedCurrentWaypoint = FALSE]
            ELSE [prev EXCEPT !.currentWaypointIndex = nextIndex,
                              !.reachedCurrentWaypoint = FALSE,
                              !.currentStepCount = 0]

\* Mutant: the step count of the previous segment is carried over.
advanceToNextWaypointState_KeepsSteps(prev, rts) ==
    IF ~advanceApplies(prev, rts) THEN prev
    ELSE LET nextIndex == prev.currentWaypointIndex + 1
         IN IF nextIndex >= Len(getRoute(rts, prev.routeId))
            THEN [prev EXCEPT !.isActive = FALSE, !.reachedCurrentWaypoint = FALSE]
            ELSE [prev EXCEPT !.currentWaypointIndex = nextIndex,
                              !.reachedCurrentWaypoint = FALSE]

\* Mutant: the end-of-route branch also clears the step count.
advanceToNextWaypointState_ResetsAtEnd(prev, rts) ==
    IF ~advanceApplies(prev, rts) THEN prev
    ELSE LET nextIndex == prev.currentWaypointIndex + 1
         IN IF nextIndex >= Len(getRoute(rts, prev.routeId))
            THEN [prev EXCEPT !.isActive = FALSE, !.reachedCurrentWaypoint = FALSE,
                              !.currentStepCount = 0]
            ELSE [prev EXCEPT !.currentWaypointIndex = nextIndex,
                              !.reachedCurrentWaypoint = FALSE,
                              !.currentStepCount = 0]

advanceToNextWaypointState(prev, rts) ==
    IF ~advanceApplies(prev, rts) THEN prev
    ELSE LET nextIndex == prev.currentWaypointIndex + 1
         IN IF nextIndex >= Len(getRoute(rts, prev.routeId))
            THEN [prev EXCEPT !.isActive = FALSE, !.reachedCurrentWaypoint = FALSE]
            ELSE [prev EXCEPT !.currentWaypointIndex = nextIndex,
                              !.reachedCurrentWaypoint = FALSE,
                              !.currentStepCount = 0]

\* Mutant: the latch also clears the step count, as stopNavigation does.
markWaypointReachedState_ClearsSteps(prev) ==
    [prev EXCEPT !.reachedCurrentWaypoint = TRUE, !.currentStepCount = 0]

markWaypointReachedState(prev) == [prev EXCEPT !.reachedCurrentWaypoint = TRUE]

incrementStepCountState(prev) ==
    [prev EXCEPT !.currentStepCount = prev.currentStepCount + 1]

getCurrentWaypoint(n, rts) ==
    IF n.routeId = Null \/ ~n.isActive THEN NoWaypoint
    ELSE IF ~routeFound(rts, n.routeId) THEN NoWaypoint
    ELSE IF n.currentWaypointIndex + 1 \in DOMAIN getRoute(rts, n.routeId)
         THEN getRoute(rts, n.routeId)[n.currentWaypointIndex + 1]
         ELSE NoWaypoint

----------------------------------------------------------------------------
(* useIndoorNavigation: alignment *)

\* Mutant: a waypoint without target counts as aligned only once a heading
\* was sampled.
alignmentOf_NeedsHeading(targetHeading, currentHeading, thresholdDeg) ==
    LET both == targetHeading # NoHeading /\ currentHeading # NoHeading
        alignmentError == IF both THEN normalizeAngleDiff(currentHeading, targetHeading)
                          ELSE NoError
        absoluteError == IF both THEN Abs(alignmentError) ELSE NoError
    IN [alignmentError |-> alignmentError,
        absoluteError |-> absoluteError,
        isAligned |-> IF both THEN absoluteError <= thresholdDeg
                      ELSE targetHeading = NoHeading /\ currentHeading # NoHeading]

\* Mutant: the comparison with the threshold is strict.
alignmentOf_Strict(targetHeading, currentHeading, thresholdDeg) ==
    LET both == targetHeading # NoHeading /\ currentHeading # NoHeading
        alignmentError == IF both THEN normalizeAngleDiff(currentHeading, targetHeading)
                          ELSE NoError
        absoluteError == IF both THEN Abs(alignmentError) ELSE NoError
    IN [alignmentError |-> alignmentError,
        absoluteError |-> absoluteError,
        isAligned |-> IF both THEN absoluteError < thresholdDeg
                      ELSE targetHeading = NoHeading]

\* let alignmentError = null; let absoluteError = null; let isAligned = false;
\* if (targetHeading !== null && currentHeading !== null) {...}
\* else if (targetHeading === null) isAligned = true: the same lines in
\* every calculateAlignment / calculateStatus of the hooks.
alignmentOf(targetHeading, currentHeading, thresholdDeg) ==
    LET both == targetHeading # NoHeading /\ currentHeading # NoHeading
        alignmentError == IF both THEN normalizeAngleDiff(currentHeading, targetHeading)
                          ELSE NoError
        absoluteError == IF both THEN Abs(alignmentError) ELSE NoError
    IN [alignmentError |-> alignmentError,
        absoluteError |-> absoluteError,
        isAligned |-> IF both THEN absoluteError <= thresholdDeg
                      ELSE targetHeading = NoHeading]

\* The isAligned field alone.
isAlignedWith(targetHeading, currentHeading, thresholdDeg) ==
    alignmentOf(targetHeading, currentHeading, thresholdDeg).isAligned

calculateAlignment(n, rts, h) ==
    LET currentWaypoint == getCurrentWaypoint(n, rts)
        routeOk == n.routeId # Null /\ routeFound(rts, n.routeId)
    IN IF ~n.isActive \/ currentWaypoint = NoWaypoint \/ ~routeOk
       THEN [targetHeading |-> NoHeading, currentHeading |-> NoHeading,
             isAligned |-> FALSE, waypointIndex |-> 0, totalWaypoints |-> 0,
             isActive |-> FALSE, isFinalWaypoint |-> FALSE]
       ELSE [targetHeading |-> currentWaypoint.targetHeading,
             currentHeading |-> h,
             isAligned |-> isAlignedWith(currentWaypoint.targetHeading, h, alignThresholdDeg),
             waypointIndex |-> n.currentWaypointIndex,
             totalWaypoints |-> Len(getRoute(rts, n.routeId)),
             isActive |-> TRUE,
             isFinalWaypoint |->
                 n.currentWaypointIndex = Len(getRoute(rts, n.routeId)) - 1]

----------------------------------------------------------------------------
(* useIndoorNavigation: refs and effects *)

NoInterval == [policy |-> "none", remaining |-> 0]

\* The refs after the mount render of an inactive session: the reset effect
\* has run once (waypointIndex 0 # -1) with no heading.
InitialHook ==
    [alignedStartTimeRef |-> NoTime,
     lastAlignmentCheckRef |-> ALIGNMENT_CHECK_INTERVAL,
     lastWaypointIndexRef |-> 0,
     advanceIntervalRef |-> NoInterval,
     initialHeadingRef |-> NoHeading,
     lastHeadingRef |-> NoHeading,
     headingChangeDetectedRef |-> FALSE,
     headingStableSinceRef |-> NoTime]

\* Effect [alignment.waypointIndex, heading]: reset of the per-waypoint trackers.
ResetEffect(hk, al, h) ==
    IF al.waypointIndex # hk.lastWaypointIndexRef
    THEN [hk EXCEPT !.alignedStartTimeRef = NoTime,
                    !.lastWaypointIndexRef = al.waypointIndex,
                    !.initialHeadingRef = h,
                    !.lastHeadingRef = h,
                    !.headingChangeDetectedRef = FALSE,
                    !.headingStableSinceRef = NoTime]
    ELSE hk

\* Mutant: the policy is chosen by whether a heading was sampled instead of by
\* the waypoint's target heading.
AutoAdvanceEffect_PolicyByHeading(hk, n, al, h) ==
    IF ~n.isActive \/ ~al.isActive \/ al.isFinalWaypoint
    THEN [hk EXCEPT !.advanceIntervalRef = NoInterval,
                    !.alignedStartTimeRef = NoTime]
    ELSE IF h # NoHeading
    THEN [hk EXCEPT !.advanceIntervalRef =
                        [policy |-> "A", remaining |-> ALIGNMENT_CHECK_INTERVAL]]
    ELSE LET seeded == hk.initialHeadingRef = NoHeading /\ h # NoHeading
         IN [hk EXCEPT !.initialHeadingRef = IF seeded THEN h ELSE @,
                       !.lastHeadingRef = IF seeded THEN h ELSE @,
                       !.advanceIntervalRef =
                           [policy |-> "B", remaining |-> POLICY_B_INTERVAL]]

\* The auto-advance effect: clears the interval, then creates the interval of
\* the policy of the current waypoint.
AutoAdvanceEffect(hk, n, al, h) ==
    IF ~n.isActive \/ ~al.isActive \/ al.isFinalWaypoint
    THEN [hk EXCEPT !.advanceIntervalRef = NoInterval,
                    !.alignedStartTimeRef = NoTime]
    ELSE IF al.targetHeading # NoHeading
    THEN [hk EXCEPT !.advanceIntervalRef =
                        [policy |-> "A", remaining |-> ALIGNMENT_CHECK_INTERVAL]]
    ELSE LET seeded == hk.initialHeadingRef = NoHeading /\ h # NoHeading
         IN [hk EXCEPT !.initialHeadingRef = IF seeded THEN h ELSE @,
                       !.lastHeadingRef = IF seeded THEN h ELSE @,
                       !.advanceIntervalRef =
                           [policy |-> "B", remaining |-> POLICY_B_INTERVAL]]

\* The effects of the render that follows a state change, in declaration order.
RunEffects(hk, n, rts, h) ==
    LET al == calculateAlignment(n, rts, h)
    IN AutoAdvanceEffect(ResetEffect(hk, al, h), n, al, h)

\* Mutant: a tick that finds the user not aligned keeps alignedStartTimeRef.
PolicyATickWith_KeepsWindow(hk, n, rts, h, thresholdDeg) ==
    IF hk.lastAlignmentCheckRef < ALIGNMENT_CHECK_INTERVAL
    THEN [hook |-> hk, arrived |-> FALSE]
    ELSE LET hk1 == [hk EXCEPT !.lastAlignmentCheckRef = 0]
             currentWaypoint == getCurrentWaypoint(n, rts)
             isAligned ==
                 /\ currentWaypoint.targetHeading # NoHeading
                 /\ h # NoHeading
                 /\ Abs(normalizeAngleDiff(h, currentWaypoint.targetHeading))
                        <= thresholdDeg
         IN IF currentWaypoint = NoWaypoint THEN [hook |-> hk1, arrived |-> FALSE]
            ELSE IF isAligned
            THEN IF hk1.alignedStartTimeRef = NoTime
                 THEN [hook |-> [hk1 EXCEPT !.alignedStartTimeRef = 0],
                       arrived |-> FALSE]
                 ELSE [hook |-> hk1,
                       arrived |-> hk1.alignedStartTimeRef >= ADVANCE_CONFIRMATION_MS]
            ELSE [hook |-> hk1, arrived |-> FALSE]

\* Mutant: without a heading the user counts as aligned.
PolicyATickWith_AlignedWithoutHeading(hk, n, rts, h, thresholdDeg) ==
    IF hk.lastAlignmentCheckRef < ALIGNMENT_CHECK_INTERVAL
    THEN [hook |-> hk, arrived |-> FALSE]
    ELSE LET hk1 == [hk EXCEPT !.lastAlignmentCheckRef = 0]
             currentWaypoint == getCurrentWaypoint(n, rts)
             isAligned ==
                 /\ currentWaypoint.targetHeading # NoHeading
                 /\ \/ h = NoHeading
                    \/ Abs(normalizeAngleDiff(h, currentWaypoint.targetHeading))
                           <= thresholdDeg
         IN IF currentWaypoint = NoWaypoint THEN [hook |-> hk1, arrived |-> FALSE]
            ELSE IF isAligned
            THEN IF hk1.alignedStartTimeRef = NoTime
                 THEN [hook |-> [hk1 EXCEPT !.alignedStartTimeRef = 0],
                       arrived |-> FALSE]
                 ELSE [hook |-> hk1,
                       arrived |-> hk1.alignedStartTimeRef >= ADVANCE_CONFIRMATION_MS]
            ELSE [hook |-> [hk1 EXCEPT !.alignedStartTimeRef = NoTime],
                  arrived |-> FALSE]

\* One run of the Policy A interval callback of a hook called with
\* alignmentThresholdDeg = thresholdDeg.
PolicyATickWith(hk, n, rts, h, thresholdDeg) ==
    IF hk.lastAlignmentCheckRef < ALIGNMENT_CHECK_INTERVAL
    THEN [hook |-> hk, arrived |-> FALSE]
    ELSE LET hk1 == [hk EXCEPT !.lastAlignmentCheckRef = 0]
             currentWaypoint == getCurrentWaypoint(n, rts)
             isAligned ==
                 /\ currentWaypoint.targetHeading # NoHeading
                 /\ h # NoHeading
                 /\ Abs(normalizeAngleDiff(h, currentWaypoint.targetHeading))
                        <= thresholdDeg
         IN IF currentWaypoint = NoWaypoint THEN [hook |-> hk1, arrived |-> FALSE]
            ELSE IF isAligned
            THEN IF hk1.alignedStartTimeRef = NoTime
                 THEN [hook |-> [hk1 EXCEPT !.alignedStartTimeRef = 0],
                       arrived |-> FALSE]
                 ELSE [hook |-> hk1,
                       arrived |-> hk1.alignedStartTimeRef >= ADVANCE_CONFIRMATION_MS]
            ELSE [hook |-> [hk1 EXCEPT !.alignedStartTimeRef = NoTime],
                  arrived |-> FALSE]

\* The callback of the screens, which pass settings.alignThresholdDeg.
PolicyATick(hk, n, rts, h) == PolicyATickWith(hk, n, rts, h, alignThresholdDeg)

\* One run of the Policy B interval callback.
PolicyBTick(hk, h) ==
    IF h = NoHeading \/ hk.lastHeadingRef = NoHeading
    THEN [hook |-> hk, arrived |-> FALSE]
    ELSE LET headingChange ==
                 IF hk.initialHeadingRef # NoHeading
                 THEN Abs(normalizeAngleDiff(h, hk.initialHeadingRef)) ELSE 0
             recentChange == Abs(normalizeAngleDiff(h, hk.lastHeadingRef))
             hk1 == IF headingChange >= HEADING_CHANGE_THRESHOLD
                       /\ ~hk.headingChangeDetectedRef
                    THEN [hk EXCEPT !.headingChangeDetectedRef = TRUE,
                                    !.headingStableSinceRef = 0]
                    ELSE hk
             waiting == hk1.headingChangeDetectedRef /\ hk1.headingStableSinceRef # NoTime
             hk2 == IF waiting /\ recentChange >= 5
                    THEN [hk1 EXCEPT !.headingStableSinceRef = 0]
                    ELSE hk1
         IN [hook |-> [hk2 EXCEPT !.lastHeadingRef = h],
             arrived |-> waiting /\ recentChange < 5
                         /\ hk1.headingStableSinceRef >= HEADING_STABLE_DURATION]

\* setTimeout(() => { advanceToNextWaypoint(); ... }, 300): the callback keeps the
\* routes its advanceToNextWaypoint closed over.  The other two fields are
\* history: since the timeout was scheduled, currentWaypointIndex changed
\* (stale), a session was started (oldSession).
NewTimeout(p, rts) ==
    [policy |-> p, remaining |-> SETTLE_DELAY, routes |-> rts,
     stale |-> FALSE, oldSession |-> FALSE]

\* Pending timeouts after the session went from n to n1 (isStart: by a Start).
AfterTransition(ts, n, n1, isStart) ==
    { [t EXCEPT !.stale = @ \/ n1.currentWaypointIndex # n.currentWaypointIndex,
                !.oldSession = @ \/ isStart] : t \in ts }

\* History of the last handler: its name, its outcome, its arguments.
Op(name, outcome, args) == [name |-> name, outcome |-> outcome, args |-> args]

\* History of the current segment (the stay at one waypoint of one session),
\* kept while the heading-change detector watches it (an active session on a
\* waypoint without target heading that is not the last): the heading it began
\* with, or the first one sampled in it, and whether a tick of the detector
\* has seen the heading HEADING_CHANGE_THRESHOLD away from that heading.
NewSegment(h) == [initialHeading |-> h, changeDetected |-> FALSE]

SegmentAfter(sg, n, n1, rts, h1, op) ==
    LET wp == getCurrentWaypoint(n1, rts)
        watched == /\ n1.isActive
                   /\ wp # NoWaypoint
                   /\ wp.targetHeading = NoHeading
                   /\ n1.currentWaypointIndex + 1 < Len(getRoute(rts, n1.routeId))
        begins == \/ op.name = "startNavigation" /\ op.outcome = "started"
                  \/ n1.currentWaypointIndex # n.currentWaypointIndex
        seen == /\ op.name = "B"
                /\ h1 # NoHeading
                /\ sg.initialHeading # NoHeading
                /\ Abs(normalizeAngleDiff(h1, sg.initialHeading))
                       >= HEADING_CHANGE_THRESHOLD
    IN IF ~watched THEN NewSegment(NoHeading)
       ELSE IF begins THEN NewSegment(h1)
       ELSE IF sg.changeDetected \/ seen
       THEN [initialHeading |-> NoHeading, changeDetected |-> TRUE]
       ELSE IF sg.initialHeading = NoHeading THEN NewSegment(h1)
       ELSE sg

\* useStepBasedNavigation: lastCheckRef = useRef(0), and the screen's
\* lastStepFeedbackRef = useRef(0): both instants lie further back than the
\* periods they are compared with.
InitialStepHook ==
    [lastCheckRef |-> DIRECTION_CHECK_INTERVAL,
     lastStepFeedbackRef |-> STEP_FEEDBACK_DELAY]

\* What a handler of the session, the detector or the calibration screen
\* leaves of the other state: the refs of the step screen are not touched, no
\* pure function is evaluated, the segment history follows the session.
\* The dynamic haptic screen after its mount render on an inactive session:
\* focused, not vibrating, lastPulseRef = 0 (a time long past), no interval,
\* no second impact pending.  screen names the version of the screen.
PULSE_TICK == 100
SECOND_IMPACT_DELAY == 120
MAX_PULSE_PERIOD == 1200
InitialHaptic(screen) ==
    [screen |-> screen,
     isFocused |-> TRUE,
     vibratingRef |-> FALSE,
     lastPulseRef |-> MAX_PULSE_PERIOD,
     intervalRef |-> NoTime,
     impacts |-> {}]

\* The status useHeadingBasedNavigation returns for an inactive session.
MOVEMENT_HEADING_CHANGE_THRESHOLD == 30
MOVEMENT_STABLE_TIME == 2000
InactiveMovementStatus ==
    [targetIndex |-> 0, isActive |-> FALSE, isAligned |-> FALSE,
     targetHeading |-> NoHeading,
     alignmentError |-> NoError, absoluteError |-> NoError,
     hasMoved |-> FALSE, movementConfidence |-> Ratio(0, 1),
     alignedMovementTime |-> 0]

\* useHeadingBasedNavigation after its mount render on an inactive session.
\* batchedUpdates is the React root of the build: TRUE, a state update made in
\* a sensor callback is rendered after the callback has returned (automatic
\* batching of a concurrent root); FALSE, it is rendered inside the setter,
\* before the statements that follow it in the callback (legacy root).
\* Accelerometer samples are one axis, in tenths of m/s^2.
NoAccelerometer == -1
ACCELEROMETER_THRESHOLD == 1
InitialMovement ==
    [batchedUpdates |-> TRUE,
     initialHeadingRef |-> NoHeading,
     lastHeadingRef |-> NoHeading,
     headingChangeDetectedRef |-> FALSE,
     headingStableSinceRef |-> NoTime,
     alignedStartTimeRef |-> NoTime,
     accelerometerData |-> NoAccelerometer,
     lastAccelerometerRef |-> NoAccelerometer,
     status |-> InactiveMovementStatus]

\* A second screen that calls useIndoorNavigation, after its mount render on
\* an inactive session: the refs of its own hook instance, no settle timeout.
InitialSecond == [hook |-> InitialHook, timeouts |-> {}]

OutsideStepScreen ==
    /\ segment' = SegmentAfter(segment, nav, nav', routes', heading', lastOp')
    /\ UNCHANGED <<stepHook, input, output, haptic, movement, second>>

----------------------------------------------------------------------------
(* Initial state: the provider is constructed over a calibrated repository, *)
(* the navigation screen is mounted, no session was started.               *)

Init ==
    /\ routes \in Repositories
    /\ nav = InitialNavigationState
    /\ heading = NoHeading
    /\ hook = InitialHook
    /\ timeouts = {}
    /\ calRouteId = Null
    /\ calWaypoints = <<>>
    /\ lastOp = Op("mount", "done", <<>>)
    /\ stopped = FALSE
    /\ segment = NewSegment(NoHeading)
    /\ stepHook = InitialStepHook
    /\ haptic = InitialHaptic("part_005")
    /\ movement = InitialMovement
    /\ second = InitialSecond
    /\ input = <<>>
    /\ output = <<>>

----------------------------------------------------------------------------
(* Commands on the session *)

\* AppContext.startNavigation(routeId, feedbackMode).  The researcher's start
\* handler calls stopNavigation() and startNavigation(...) in one event: the two
\* updates are applied in one render, whose state is startNavigation's.
StartNavigation ==
    \E routeId \in RouteIds \cup {UnknownRouteId}, mode \in FeedbackModes :
        IF startAccepted(routes, routeId)
        THEN /\ nav' = startNavigationState(routeId, mode)
             /\ hook' = RunEffects(hook, nav', routes, heading)
             /\ timeouts' = AfterTransition(timeouts, nav, nav', TRUE)
             /\ stopped' = FALSE
             /\ lastOp' = Op("startNavigation", "started", <<routeId, mode>>)
             /\ UNCHANGED <<routes, heading, calRouteId, calWaypoints>>
             /\ OutsideStepScreen
        ELSE \* console.warn(...); return;
             /\ lastOp' = Op("startNavigation", "warned", <<>>)
             /\ UNCHANGED <<routes, nav, heading, hook, timeouts,
                            calRouteId, calWaypoints, stopped>>
             /\ OutsideStepScreen

\* AppContext.stopNavigation(): the end-task handlers call it in any state.
StopNavigation ==
    /\ nav' = stopNavigationState(nav)
    /\ hook' = RunEffects(hook, nav', routes, heading)
    /\ stopped' = TRUE
    /\ lastOp' = Op("stopNavigation", "done", <<>>)
    /\ UNCHANGED <<routes, heading, timeouts, calRouteId, calWaypoints>>
    /\ OutsideStepScreen

\* The researcher's "Advance to Next Target" button, shown while active.
AdvanceButton ==
    /\ nav.isActive
    /\ nav' = advanceToNextWaypointState(nav, routes)
    /\ hook' = IF advanceApplies(nav, routes)
               THEN RunEffects(hook, nav', routes, heading) ELSE hook
    /\ timeouts' = AfterTransition(timeouts, nav, nav', FALSE)
    /\ lastOp' = Op("advanceButton", "done", <<>>)
    /\ UNCHANGED <<routes, heading, calRouteId, calWaypoints, stopped>>
    /\ OutsideStepScreen

\* StepNavigationScreen.handleStepTap
HandleStepTap ==
    /\ nav.isActive
    /\ getCurrentWaypoint(nav, routes) # NoWaypoint
    /\ nav.currentStepCount < MaxSteps
    /\ nav' = incrementStepCountState(nav)
    /\ hook' = RunEffects(hook, nav', routes, heading)
    /\ lastOp' = Op("handleStepTap", "done", <<>>)
    /\ UNCHANGED <<routes, heading, timeouts, calRouteId, calWaypoints, stopped>>
    /\ OutsideStepScreen

----------------------------------------------------------------------------
(* Sensor and timers *)

\* The watchHeadingAsync callback, subscribed while the session is active.
\* A sample equal to the heading state causes no render.
HeadingSample ==
    \E h \in Headings :
        /\ nav.isActive
        /\ h # heading
        /\ heading' = h
        /\ hook' = RunEffects(hook, nav, routes, h)
        /\ lastOp' = Op("headingSample", "done", <<>>)
        /\ UNCHANGED <<routes, nav, timeouts, calRouteId,
                       calWaypoints, stopped>>
        /\ OutsideStepScreen

\* A due run of the interval callback of policy p, whose result is r.
IntervalFires(p, period, r) ==
    LET hk1 == [r.hook EXCEPT !.advanceIntervalRef = [policy |-> p, remaining |-> period]]
    IN IF r.arrived
       THEN \* markWaypointReached(); setTimeout(..., 300)
            /\ nav' = markWaypointReachedState(nav)
            /\ timeouts' = timeouts \cup {NewTimeout(p, routes)}
            /\ hook' = RunEffects(hk1, nav', routes, heading)
            /\ lastOp' = Op(p, "arrived", <<>>)
       ELSE /\ hook' = hk1
            /\ lastOp' = Op(p, "checked", <<>>)
            /\ UNCHANGED <<nav, timeouts>>

PolicyAInterval ==
    /\ hook.advanceIntervalRef = [policy |-> "A", remaining |-> 0]
    /\ IntervalFires("A", ALIGNMENT_CHECK_INTERVAL, PolicyATick(hook, nav, routes, heading))
    /\ UNCHANGED <<routes, heading, calRouteId, calWaypoints, stopped>>
    /\ OutsideStepScreen

PolicyBInterval ==
    /\ hook.advanceIntervalRef = [policy |-> "B", remaining |-> 0]
    /\ IntervalFires("B", POLICY_B_INTERVAL, PolicyBTick(hook, heading))
    /\ UNCHANGED <<routes, heading, calRouteId, calWaypoints, stopped>>
    /\ OutsideStepScreen

\* A due settle timeout: advanceToNextWaypoint(); alignedStartTimeRef.current =
\* null (the alignment interval's timeout only);
\* clearInterval(advanceIntervalRef.current).
SettleTimeout ==
    \E t \in timeouts :
        /\ t.remaining = 0
        /\ nav' = advanceToNextWaypointState(nav, t.routes)
        /\ LET hk1 == [hook EXCEPT
                          !.alignedStartTimeRef = IF t.policy = "A" THEN NoTime ELSE @,
                          !.advanceIntervalRef = NoInterval]
           IN hook' = IF advanceApplies(nav, t.routes)
                      THEN RunEffects(hk1, nav', routes, heading) ELSE hk1
        /\ timeouts' = AfterTransition(timeouts \ {t}, nav, nav', FALSE)
        /\ lastOp' = Op("settleTimeout",
                        IF nav' = nav THEN "noop"
                        ELSE IF t.stale THEN "stale"
                        ELSE IF t.oldSession THEN "oldSession" ELSE "fresh", <<>>)
        /\ UNCHANGED <<routes, heading, calRouteId, calWaypoints, stopped>>
        /\ OutsideStepScreen

TimerDue ==
    \/ hook.advanceIntervalRef.policy # "none" /\ hook.advanceIntervalRef.remaining = 0
    \/ \E t \in timeouts : t.remaining = 0

Elapsed(ref, cap) == IF ref = NoTime THEN NoTime ELSE Saturate(ref + 100, cap)

\* The refs of useIndoorNavigation 100 ms later.
HookElapsed(hk) ==
    [hk EXCEPT
        !.alignedStartTimeRef = Elapsed(@, ADVANCE_CONFIRMATION_MS),
        !.lastAlignmentCheckRef = Elapsed(@, ALIGNMENT_CHECK_INTERVAL),
        !.headingStableSinceRef = Elapsed(@, HEADING_STABLE_DURATION),
        !.advanceIntervalRef =
            IF @.policy = "none" THEN @ ELSE [@ EXCEPT !.remaining = @ - 100]]

\* 100 ms pass.
TimeElapses ==
    /\ ~TimerDue
    /\ hook' = HookElapsed(hook)
    /\ timeouts' = { [t EXCEPT !.remaining = @ - 100] : t \in timeouts }
    /\ lastOp' = Op("timeElapses", "done", <<>>)
    /\ UNCHANGED <<routes, nav, heading, calRouteId, calWaypoints, stopped>>
    /\ OutsideStepScreen

----------------------------------------------------------------------------
(* CalibrationScreen: authoring of the loaded route *)

\* A delete that keeps the order values the waypoints had.
Reindexed_KeepsOrder(ws) == ws

Reindexed(ws) == [i \in 1..Len(ws) |-> [ws[i] EXCEPT !.order = i - 1]]
WithoutPosition(ws, k) == SubSeq(ws, 1, k - 1) \o SubSeq(ws, k + 1, Len(ws))

\* AppContext.updateRoute(routeId, {waypoints}): a route that is not found is
\* left alone.
updateRouteWaypoints(rts, routeId, ws) ==
    [r \in DOMAIN rts |-> IF r = routeId THEN ws ELSE rts[r]]

\* route.waypoints.sort((a, b) => a.order - b.order): ascending order values,
\* equal values keep their relative position.
InsertByOrder(sorted, w) ==
    LET k == Cardinality({ i \in 1..Len(sorted) : sorted[i].order <= w.order })
    IN SubSeq(sorted, 1, k) \o <<w>> \o SubSeq(sorted, k + 1, Len(sorted))

RECURSIVE sortByOrder(_)
sortByOrder(ws) ==
    IF ws = <<>> THEN <<>>
    ELSE InsertByOrder(sortByOrder(SubSeq(ws, 1, Len(ws) - 1)), ws[Len(ws)])

\* handleLoadRoute: Array.sort works in place, so the stored route is sorted
\* with the screen's list.
HandleLoadRoute ==
    \E routeId \in RouteIds :
        /\ routeFound(routes, routeId)
        /\ calRouteId' = routeId
        /\ calWaypoints' = sortByOrder(getRoute(routes, routeId))
        /\ routes' = updateRouteWaypoints(routes, routeId, calWaypoints')
        /\ lastOp' = Op("handleLoadRoute", "done", <<>>)
        /\ UNCHANGED <<nav, heading, hook, timeouts, stopped>>
        /\ OutsideStepScreen

\* handleLogPoint: the new waypoint takes the compass heading of the moment, if any.
HandleLogPoint ==
    \E th \in TargetHeadings :
        /\ calRouteId # Null
        /\ Len(calWaypoints) < MaxWaypoints
        /\ calWaypoints' = Append(calWaypoints, Waypoint(Len(calWaypoints), th))
        /\ routes' = updateRouteWaypoints(routes, calRouteId, calWaypoints')
        /\ hook' = RunEffects(hook, nav, routes', heading)
        /\ lastOp' = Op("handleLogPoint", "done", <<>>)
        /\ UNCHANGED <<nav, heading, timeouts, calRouteId, stopped>>
        /\ OutsideStepScreen

HandleDeleteWaypoint ==
    \E k \in 1..Len(calWaypoints) :
        /\ calWaypoints' = Reindexed(WithoutPosition(calWaypoints, k))
        /\ routes' = IF calRouteId # Null
                     THEN updateRouteWaypoints(routes, calRouteId, calWaypoints')
                     ELSE routes
        /\ hook' = IF calRouteId # Null
                   THEN RunEffects(hook, nav, routes', heading) ELSE hook
        /\ lastOp' = Op("handleDeleteWaypoint", "done", <<k>>)
        /\ UNCHANGED <<nav, heading, timeouts, calRouteId, stopped>>
        /\ OutsideStepScreen

----------------------------------------------------------------------------
(* StepNavigationScreen and useStepBasedNavigation: the step gate *)

StepWaypoint(ord, th, steps) ==
    [order |-> ord, targetHeading |-> th, stepCountToNext |-> steps]

\* stepCountToNext: undefined, or what handleLogPoint parsed (>= 0).
StepCounts == {NoSteps} \cup 0..MaxRequiredSteps

\* The routes calibrated for step-based navigation.
StepRouteShapes ==
    UNION { { [i \in 1..n |-> StepWaypoint(i - 1, f[i][1], f[i][2])]
              : f \in [1..n -> TargetHeadings \X StepCounts] }
            : n \in 1..MaxWaypoints }

StepRepositories ==
    { [r \in RouteIds |-> IF r = "r1" THEN ws ELSE <<>>] : ws \in StepRouteShapes }

\* calculateStatus with the step test written as a strict comparison.
\* Mutant: the progress is not capped at 100.
stepProgressOf_Uncapped(currentStepCount, requiredStepCount) ==
    IF requiredStepCount # NoSteps /\ requiredStepCount > 0
    THEN Ratio(currentStepCount * 100, requiredStepCount)
    ELSE Ratio(0, 1)

\* stepProgress = requiredStepCount !== null && requiredStepCount > 0
\*     ? Math.min(100, (currentStepCount / requiredStepCount) * 100) : 0
stepProgressOf(currentStepCount, requiredStepCount) ==
    IF requiredStepCount # NoSteps /\ requiredStepCount > 0
    THEN Ratio(Min(100 * requiredStepCount, currentStepCount * 100),
               requiredStepCount)
    ELSE Ratio(0, 1)

calculateStatus_StrictlyMore(n, rts, h) ==
    LET currentWaypoint == getCurrentWaypoint(n, rts)
        routeOk == n.routeId # Null /\ routeFound(rts, n.routeId)
    IN IF ~n.isActive \/ currentWaypoint = NoWaypoint \/ ~routeOk
       THEN [currentStepCount |-> 0, requiredStepCount |-> NoSteps,
             stepProgress |-> Ratio(0, 1),
             targetHeading |-> NoHeading, currentHeading |-> NoHeading,
             alignmentError |-> NoError, absoluteError |-> NoError,
             isAligned |-> FALSE, isActive |-> FALSE,
             isFinalSegment |-> FALSE, canAdvance |-> FALSE]
       ELSE LET requiredStepCount == currentWaypoint.stepCountToNext
                al == alignmentOf(currentWaypoint.targetHeading, h, alignThresholdDeg)
                hasRequiredSteps == /\ requiredStepCount # NoSteps
                                    /\ n.currentStepCount > requiredStepCount
            IN [currentStepCount |-> n.currentStepCount,
                requiredStepCount |-> requiredStepCount,
                stepProgress |-> stepProgressOf(n.currentStepCount, requiredStepCount),
                targetHeading |-> currentWaypoint.targetHeading,
                currentHeading |-> h,
                alignmentError |-> al.alignmentError,
                absoluteError |-> al.absoluteError,
                isAligned |-> al.isAligned,
                isActive |-> TRUE,
                isFinalSegment |->
                    n.currentWaypointIndex = Len(getRoute(rts, n.routeId)) - 1,
                canAdvance |-> hasRequiredSteps /\ al.isAligned]

\* useStepBasedNavigation.calculateStatus
calculateStatus(n, rts, h) ==
    LET currentWaypoint == getCurrentWaypoint(n, rts)
        routeOk == n.routeId # Null /\ routeFound(rts, n.routeId)
    IN IF ~n.isActive \/ currentWaypoint = NoWaypoint \/ ~routeOk
       THEN [currentStepCount |-> 0, requiredStepCount |-> NoSteps,
             stepProgress |-> Ratio(0, 1),
             targetHeading |-> NoHeading, currentHeading |-> NoHeading,
             alignmentError |-> NoError, absoluteError |-> NoError,
             isAligned |-> FALSE, isActive |-> FALSE,
             isFinalSegment |-> FALSE, canAdvance |-> FALSE]
       ELSE LET requiredStepCount == currentWaypoint.stepCountToNext
                al == alignmentOf(currentWaypoint.targetHeading, h, alignThresholdDeg)
                hasRequiredSteps == /\ requiredStepCount # NoSteps
                                    /\ n.currentStepCount >= requiredStepCount
            IN [currentStepCount |-> n.currentStepCount,
                requiredStepCount |-> requiredStepCount,
                stepProgress |-> stepProgressOf(n.currentStepCount, requiredStepCount),
                targetHeading |-> currentWaypoint.targetHeading,
                currentHeading |-> h,
                alignmentError |-> al.alignmentError,
                absoluteError |-> al.absoluteError,
                isAligned |-> al.isAligned,
                isActive |-> TRUE,
                isFinalSegment |->
                    n.currentWaypointIndex = Len(getRoute(rts, n.routeId)) - 1,
                canAdvance |-> hasRequiredSteps /\ al.isAligned]

\* The auto-advance effect of the render of session n: the session and the
\* refs it leaves.  The render that its own advance causes runs the effect
\* again, less than DIRECTION_CHECK_INTERVAL after this run: that run returns
\* at the lastCheckRef test.
StepAutoAdvanceEffect(sh, n, rts, h) ==
    LET status == calculateStatus(n, rts, h)
    IN IF ~n.isActive \/ ~status.isActive \/ status.isFinalSegment
       THEN [stepHook |-> sh, nav |-> n]
       ELSE IF sh.lastCheckRef < DIRECTION_CHECK_INTERVAL
       THEN [stepHook |-> sh, nav |-> n]
       ELSE [stepHook |-> [sh EXCEPT !.lastCheckRef = 0],
             nav |-> IF status.canAdvance
                     THEN advanceToNextWaypointState(n, rts) ELSE n]

\* A handler of the step screen set the session to n1 and the heading to h1:
\* the render, then the auto-advance effect.
StepRender(sh, n1, h1, name, args) ==
    LET r == StepAutoAdvanceEffect(sh, n1, routes, h1)
    IN /\ nav' = r.nav
       /\ heading' = h1
       /\ stepHook' = r.stepHook
       /\ lastOp' = Op(name, IF r.nav # n1 THEN "advanced" ELSE "done", args)
       /\ UNCHANGED <<routes, hook, timeouts, calRouteId, calWaypoints,
                      stopped, segment, input, output, haptic, movement, second>>

\* The researcher starts a step-based task on a route.
StepStartNavigation ==
    \E routeId \in RouteIds :
        /\ ~nav.isActive
        /\ startAccepted(routes, routeId)
        /\ StepRender(stepHook, startNavigationState(routeId, "step_based"), heading,
                      "startNavigation", <<routeId, "step_based">>)

\* handleStepTap with its STEP_FEEDBACK_DELAY debounce.
StepTap ==
    /\ nav.isActive
    /\ calculateStatus(nav, routes, heading).isActive
    /\ stepHook.lastStepFeedbackRef >= STEP_FEEDBACK_DELAY
    /\ nav.currentStepCount <= MaxRequiredSteps
    /\ StepRender([stepHook EXCEPT !.lastStepFeedbackRef = 0],
                  incrementStepCountState(nav), heading, "handleStepTap", <<>>)

\* The watchHeadingAsync callback of useStepBasedNavigation.
StepHeadingSample ==
    \E h \in Headings :
        /\ nav.isActive
        /\ h # heading
        /\ StepRender(stepHook, nav, h, "headingSample", <<>>)

\* 100 ms pass on the step screen: no timer of the hook is pending, nothing
\* is rendered.
StepTimeElapses ==
    /\ nav.isActive
    /\ \/ stepHook.lastCheckRef < DIRECTION_CHECK_INTERVAL
       \/ stepHook.lastStepFeedbackRef < STEP_FEEDBACK_DELAY
    /\ stepHook' = [stepHook EXCEPT
           !.lastCheckRef = Saturate(@ + 100, DIRECTION_CHECK_INTERVAL),
           !.lastStepFeedbackRef = Saturate(@ + 100, STEP_FEEDBACK_DELAY)]
    /\ lastOp' = Op("timeElapses", "done", <<>>)
    /\ UNCHANGED <<routes, nav, heading, hook, timeouts, calRouteId, calWaypoints,
                   stopped, segment, input, output, haptic, movement, second>>

InitStepGate ==
    /\ routes \in StepRepositories
    /\ nav = InitialNavigationState
    /\ heading = NoHeading
    /\ hook = InitialHook
    /\ timeouts = {}
    /\ calRouteId = Null
    /\ calWaypoints = <<>>
    /\ lastOp = Op("mount", "done", <<>>)
    /\ stopped = FALSE
    /\ segment = NewSegment(NoHeading)
    /\ stepHook = InitialStepHook
    /\ haptic = InitialHaptic("part_005")
    /\ movement = InitialMovement
    /\ second = InitialSecond
    /\ input = <<>>
    /\ output = <<>>

NextStepGate ==
    \/ StepStartNavigation
    \/ StepTap
    \/ StepHeadingSample
    \/ StepTimeElapses

SpecStepGate == InitStepGate /\ [][NextStepGate]_vars

----------------------------------------------------------------------------
(* The alignment interval over a sequence of heading samples *)

\* Headings around a target of 90 degrees, on both sides of the thresholds.
SampleHeadings == {60, 70, 82, 91, 92}
Thresholds == {alignThresholdDeg, DEFAULT_THRESHOLD}
SampledWaypoints == <<Waypoint(0, 90), Waypoint(1, 90)>>
SampledRoutes == [r \in RouteIds |-> IF r = "r1" THEN SampledWaypoints ELSE <<>>]

\* A session on the first waypoint of the sampled route; input is the
\* threshold the hook is called with and the samples the compass will give.
InitSamples ==
    /\ routes = SampledRoutes
    /\ nav = startNavigationState("r1", "audio")
    /\ heading = NoHeading
    /\ hook = RunEffects(InitialHook, nav, routes, heading)
    /\ timeouts = {}
    /\ calRouteId = Null
    /\ calWaypoints = <<>>
    /\ lastOp = Op("startNavigation", "started", <<"r1", "audio">>)
    /\ stopped = FALSE
    /\ segment = NewSegment(NoHeading)
    /\ stepHook = InitialStepHook
    /\ haptic = InitialHaptic("part_005")
    /\ movement = InitialMovement
    /\ second = InitialSecond
    /\ input \in [thresholdDeg : Thresholds,
                  samples : [1..MaxSamples -> SampleHeadings]]
    /\ output = <<>>

\* The next sample arrives (a render, which re-creates the interval) and,
\* ALIGNMENT_CHECK_INTERVAL later, the interval callback evaluates it; output
\* records whether it signalled Arrived.  The samples are evaluated up to the
\* first signal, whose settle timeout ends the stay at the waypoint.
EvaluateSample ==
    /\ Len(output) < Len(input.samples)
    /\ \A i \in 1..Len(output) : ~output[i]
    /\ LET h == input.samples[Len(output) + 1]
           sampled == RunEffects(hook, nav, routes, h)
           r == PolicyATickWith(HookElapsed(HookElapsed(sampled)), nav, routes, h,
                                input.thresholdDeg)
           hk1 == [r.hook EXCEPT !.advanceIntervalRef =
                      [policy |-> "A", remaining |-> ALIGNMENT_CHECK_INTERVAL]]
       IN /\ heading' = h
          /\ hook' = IF r.arrived
                     THEN RunEffects(hk1, markWaypointReachedState(nav), routes, h)
                     ELSE hk1
          /\ output' = Append(output, r.arrived)
          /\ nav' = IF r.arrived THEN markWaypointReachedState(nav) ELSE nav
          /\ timeouts' = IF r.arrived THEN timeouts \cup {NewTimeout("A", routes)}
                         ELSE timeouts
          /\ lastOp' = Op("A", IF r.arrived THEN "arrived" ELSE "checked", <<>>)
    /\ UNCHANGED <<routes, calRouteId, calWaypoints, stopped, segment, stepHook, input,
                   haptic, movement, second>>

SpecSamples == InitSamples /\ [][EvaluateSample]_vars

----------------------------------------------------------------------------
(* The alignment computation and normalizeAngleDiff over the compass *)

\* Compass headings in whole degrees of [0, 360), and the thresholds of the
\* hooks besides the exact one.
CompassHeadings == 0..359
AlignmentThresholds == {0} \cup Thresholds

\* input is a waypoint's targetHeading, the heading state of the hook and the
\* threshold the hook is called with; either heading may be absent.
InitAlignment ==
    /\ routes = SampledRoutes
    /\ nav = InitialNavigationState
    /\ heading = NoHeading
    /\ hook = InitialHook
    /\ timeouts = {}
    /\ calRouteId = Null
    /\ calWaypoints = <<>>
    /\ lastOp = Op("mount", "done", <<>>)
    /\ stopped = FALSE
    /\ segment = NewSegment(NoHeading)
    /\ stepHook = InitialStepHook
    /\ haptic = InitialHaptic("part_005")
    /\ movement = InitialMovement
    /\ second = InitialSecond
    /\ input \in [targetHeading : CompassHeadings \cup {NoHeading},
                  currentHeading : CompassHeadings \cup {NoHeading},
                  thresholdDeg : AlignmentThresholds]
    /\ output = <<>>

\* The alignment lines of calculateAlignment / calculateStatus on the input.
EvaluateAlignment ==
    /\ output = <<>>
    /\ output' = <<[fn |-> "calculateAlignment",
                    result |-> alignmentOf(input.targetHeading, input.currentHeading,
                                           input.thresholdDeg)]>>
    /\ UNCHANGED <<routes, nav, heading, hook, timeouts, calRouteId, calWaypoints,
                   lastOp, stopped, segment, stepHook, input, haptic, movement, second>>

\* normalizeAngleDiff(currentHeading, targetHeading), which the hooks call
\* with two headings.
EvaluateAngleDiff ==
    /\ output = <<>>
    /\ input.targetHeading # NoHeading
    /\ input.currentHeading # NoHeading
    /\ output' = <<[fn |-> "normalizeAngleDiff",
                    result |-> normalizeAngleDiff(input.currentHeading,
                                                  input.targetHeading)]>>
    /\ UNCHANGED <<routes, nav, heading, hook, timeouts, calRouteId, calWaypoints,
                   lastOp, stopped, segment, stepHook, input, haptic, movement, second>>

NextAlignment == EvaluateAlignment \/ EvaluateAngleDiff

SpecAlignment == InitAlignment /\ [][NextAlignment]_vars

----------------------------------------------------------------------------
(* Dynamic haptic screen: what pulseInterval computes from the error *)

\* Mutant: the value is not clamped to [inMin, inMax].
mapRange_Unclamped(value, inMin, inMax, outMin, outMax) ==
    Ratio(outMin * (inMax - inMin) + (value - inMin) * (outMax - outMin),
          inMax - inMin)

\* clamped = Math.max(inMin, Math.min(inMax, value));
\* norm = (clamped - inMin) / (inMax - inMin);
\* return outMin + norm * (outMax - outMin).
mapRange(value, inMin, inMax, outMin, outMax) ==
    LET clamped == Max(inMin, Min(inMax, value))
    IN Ratio(outMin * (inMax - inMin) + (clamped - inMin) * (outMax - outMin),
             inMax - inMin)

\* Mutant: the tiers are in the opposite order.
impactStyle_Reversed(absErr) ==
    IF absErr < 10 THEN "Light"
    ELSE IF absErr < 30 THEN "Medium"
    ELSE "Heavy"

\* Haptics.ImpactFeedbackStyle chosen from the absolute error.
impactStyle(absErr) ==
    IF absErr < 10 THEN "Heavy"
    ELSE IF absErr < 30 THEN "Medium"
    ELSE "Light"

\* Mutant: an error of zero gives the double pulse.
pulsePattern_ZeroIsRight(alignmentError) ==
    IF alignmentError >= 0 THEN "double" ELSE "single"

\* if (alignmentError > 0) two impacts, the second after 120 ms; else one.
pulsePattern(alignmentError) ==
    IF alignmentError > 0 THEN "double" ELSE "single"

\* The numbers the pulse computation is applied to: errors of (-180, 180]
\* and -180, and values outside [0, 180] on both sides.
PulseValues == -200..200

\* input is a pair of numbers, so that the results can be compared.
InitPulse ==
    /\ routes = SampledRoutes
    /\ nav = InitialNavigationState
    /\ heading = NoHeading
    /\ hook = InitialHook
    /\ timeouts = {}
    /\ calRouteId = Null
    /\ calWaypoints = <<>>
    /\ lastOp = Op("mount", "done", <<>>)
    /\ stopped = FALSE
    /\ segment = NewSegment(NoHeading)
    /\ stepHook = InitialStepHook
    /\ haptic = InitialHaptic("part_005")
    /\ movement = InitialMovement
    /\ second = InitialSecond
    /\ input \in [value : PulseValues, other : PulseValues]
    /\ output = <<>>

\* mapRange(value, 0, 180, 200, 1200) for both numbers.
EvaluateMapRange ==
    /\ output = <<>>
    /\ output' = <<[fn |-> "mapRange",
                    result |-> mapRange(input.value, 0, 180, 200, 1200),
                    other |-> mapRange(input.other, 0, 180, 200, 1200)]>>
    /\ UNCHANGED <<routes, nav, heading, hook, timeouts, calRouteId, calWaypoints,
                   lastOp, stopped, segment, stepHook, input, haptic, movement, second>>

\* The style and the pattern pulseInterval chooses for an alignment error
\* (absoluteError = Math.abs(alignmentError)), for both numbers.
EvaluatePulse ==
    /\ output = <<>>
    /\ input.value \in -180..180
    /\ input.other \in -180..180
    /\ output' = <<[fn |-> "pulseInterval",
                    result |-> [style |-> impactStyle(Abs(input.value)),
                                pattern |-> pulsePattern(input.value)],
                    other |-> [style |-> impactStyle(Abs(input.other)),
                               pattern |-> pulsePattern(input.other)]]>>
    /\ UNCHANGED <<routes, nav, heading, hook, timeouts, calRouteId, calWaypoints,
                   lastOp, stopped, segment, stepHook, input, haptic, movement, second>>

NextPulse == EvaluateMapRange \/ EvaluatePulse

SpecPulse == InitPulse /\ [][NextPulse]_vars

----------------------------------------------------------------------------
(* Dynamic haptic screen: the feedback renderer *)

HapticHeadings == {0, 60, 90, 120}
HapticTargets == {NoHeading, 0, 90}
HapticScreens == {"part_004", "part_005"}
HapticRepositories ==
    { [r \in RouteIds |-> IF r = "r1" THEN <<Waypoint(0, th), Waypoint(1, 90)>>
                          ELSE <<>>] : th \in HapticTargets }

\* The fields of the hook's result the screen reads.
HapticAlignment(n, rts, h) ==
    LET al == calculateAlignment(n, rts, h)
        e == alignmentOf(al.targetHeading, al.currentHeading, alignThresholdDeg)
    IN [isActive |-> al.isActive,
        isAligned |-> al.isAligned,
        targetHeading |-> al.targetHeading,
        alignmentError |-> IF al.isActive THEN e.alignmentError ELSE NoError,
        absoluteError |-> IF al.isActive THEN e.absoluteError ELSE NoError]

\* part_005 tests !alignment.targetHeading, which is also true of a target
\* heading of 0; part_004 tests nav.targetHeading !== null.
hasTargetHeading(screen, al) ==
    IF screen = "part_005"
    THEN al.targetHeading # NoHeading /\ al.targetHeading # 0
    ELSE al.targetHeading # NoHeading

\* Effect [isFocused, navigationState.isActive].
FocusEffect(hp, n) ==
    IF ~hp.isFocused \/ ~n.isActive
    THEN [hp EXCEPT !.intervalRef = NoTime,
                    !.vibratingRef = FALSE,
                    !.lastPulseRef = MAX_PULSE_PERIOD]
    ELSE hp

\* The feedback effect: clears the interval; stops when not active (part_005:
\* or without target heading); continuous vibration when aligned (part_004:
\* and with a target heading); otherwise stops the vibration and creates the
\* pulse interval.
FeedbackEffect(hp, n, al) ==
    LET hp0 == [hp EXCEPT !.intervalRef = NoTime]
        stops == \/ ~n.isActive
                 \/ ~al.isActive
                 \/ hp.screen = "part_005" /\ ~hasTargetHeading(hp.screen, al)
        continuous == /\ al.isAligned
                      /\ hp.screen = "part_004" => hasTargetHeading(hp.screen, al)
    IN IF stops THEN [hp0 EXCEPT !.vibratingRef = FALSE]
       ELSE IF continuous THEN [hp0 EXCEPT !.vibratingRef = TRUE]
       ELSE [hp0 EXCEPT !.vibratingRef = FALSE, !.intervalRef = PULSE_TICK]

\* The dependencies of the two effects.
FocusDeps(hp, n) == <<hp.isFocused, n.isActive>>
FeedbackDeps(n, al) ==
    <<al.isAligned, al.absoluteError, al.alignmentError, al.targetHeading,
      n.isActive, al.isActive>>

\* The effects of the render that takes the screen from (hp, n, h) to
\* (hp1, n1, h1): each effect runs if one of its dependencies changed.
HapticRender(hp, n, h, hp1, n1, h1, rts) ==
    LET al == HapticAlignment(n, rts, h)
        al1 == HapticAlignment(n1, rts, h1)
        focused == IF FocusDeps(hp1, n1) # FocusDeps(hp, n)
                   THEN FocusEffect(hp1, n1) ELSE hp1
    IN IF FeedbackDeps(n1, al1) # FeedbackDeps(n, al)
       THEN FeedbackEffect(focused, n1, al1) ELSE focused

\* One run of pulseInterval: what it emits and the screen after it.
pulseInterval(hp, al) ==
    LET hp1 == [hp EXCEPT !.intervalRef = PULSE_TICK]
        returns == \/ ~al.isActive
                   \/ hp.screen = "part_005" /\ ~hasTargetHeading(hp.screen, al)
                   \/ al.isAligned
                   \/ al.absoluteError = NoError
                   \/ al.alignmentError = NoError
        frequencyMs == mapRange(al.absoluteError, 0, 180, 200, MAX_PULSE_PERIOD)
        style == impactStyle(al.absoluteError)
    IN IF returns \/ ~RatioLeq(frequencyMs, Ratio(hp.lastPulseRef, 1))
       THEN [haptic |-> hp1, emitted |-> "none", style |-> "none"]
       ELSE [haptic |-> [hp1 EXCEPT
                 !.lastPulseRef = 0,
                 !.impacts = IF pulsePattern(al.alignmentError) = "double"
                             THEN @ \cup {[remaining |-> SECOND_IMPACT_DELAY,
                                           style |-> style]}
                             ELSE @],
             emitted |-> pulsePattern(al.alignmentError),
             style |-> style]

\* What the actions of the haptic screen leave alone.
HapticFrame ==
    UNCHANGED <<routes, hook, timeouts, calRouteId, calWaypoints, stopped,
                segment, stepHook, input, output, movement, second>>

\* A state change followed by its render.
HapticStep(hp1, n1, h1, name) ==
    /\ nav' = n1
    /\ heading' = h1
    /\ haptic' = HapticRender(haptic, nav, heading, hp1, n1, h1, routes)
    /\ lastOp' = Op(name, "done", <<>>)
    /\ HapticFrame

HapticStart ==
    /\ startAccepted(routes, "r1")
    /\ HapticStep(haptic, startNavigationState("r1", "dynamic_haptic"), heading,
                  "startNavigation")

HapticStop ==
    /\ nav.isActive
    /\ HapticStep(haptic, stopNavigationState(nav), heading, "stopNavigation")

\* advanceToNextWaypoint(), called by the settle timeout of the hook or by the
\* researcher's button.
HapticAdvance ==
    /\ nav.isActive
    /\ HapticStep(haptic, advanceToNextWaypointState(nav, routes), heading,
                  "advanceToNextWaypoint")

HapticHeadingSample ==
    \E h \in HapticHeadings :
        /\ nav.isActive
        /\ h # heading
        /\ HapticStep(haptic, nav, h, "headingSample")

\* The tab of the screen loses or regains the focus (useIsFocused).
HapticFocusChange ==
    HapticStep([haptic EXCEPT !.isFocused = ~@], nav, heading, "focusChange")

\* The pulse interval is due.
PulseIntervalFires ==
    /\ haptic.intervalRef = 0
    /\ LET r == pulseInterval(haptic, HapticAlignment(nav, routes, heading))
       IN /\ haptic' = r.haptic
          /\ lastOp' = Op("pulseInterval", r.emitted, <<r.style>>)
    /\ UNCHANGED <<nav, heading>>
    /\ HapticFrame

\* setTimeout(() => Haptics.impactAsync(style), 120) is due.
SecondImpact ==
    \E t \in haptic.impacts :
        /\ t.remaining = 0
        /\ haptic' = [haptic EXCEPT !.impacts = @ \ {t}]
        /\ lastOp' = Op("secondImpact", "impact", <<t.style>>)
        /\ UNCHANGED <<nav, heading>>
        /\ HapticFrame

\* Time passes up to the next timer of the screen (PULSE_TICK when none is
\* pending).
HapticTimers == { t.remaining : t \in haptic.impacts }
                    \cup (IF haptic.intervalRef = NoTime THEN {} ELSE {haptic.intervalRef})
HapticTimeElapses ==
    /\ 0 \notin HapticTimers
    /\ HapticTimers # {} \/ haptic.lastPulseRef < MAX_PULSE_PERIOD
    /\ LET d == IF HapticTimers = {} THEN PULSE_TICK
                ELSE CHOOSE x \in HapticTimers : \A y \in HapticTimers : x <= y
       IN haptic' = [haptic EXCEPT
              !.lastPulseRef = Saturate(@ + d, MAX_PULSE_PERIOD),
              !.intervalRef = IF @ = NoTime THEN @ ELSE @ - d,
              !.impacts = { [t EXCEPT !.remaining = @ - d] : t \in @ }]
    /\ lastOp' = Op("timeElapses", "done", <<>>)
    /\ UNCHANGED <<nav, heading>>
    /\ HapticFrame

InitHaptic ==
    /\ routes \in HapticRepositories
    /\ nav = InitialNavigationState
    /\ heading = NoHeading
    /\ hook = InitialHook
    /\ timeouts = {}
    /\ calRouteId = Null
    /\ calWaypoints = <<>>
    /\ lastOp = Op("mount", "done", <<>>)
    /\ stopped = FALSE
    /\ segment = NewSegment(NoHeading)
    /\ stepHook = InitialStepHook
    /\ input = <<>>
    /\ output = <<>>
    /\ haptic \in { InitialHaptic(screen) : screen \in HapticScreens }
    /\ movement = InitialMovement
    /\ second = InitialSecond

NextHaptic ==
    \/ HapticStart
    \/ HapticStop
    \/ HapticAdvance
    \/ HapticHeadingSample
    \/ HapticFocusChange
    \/ PulseIntervalFires
    \/ SecondImpact
    \/ HapticTimeElapses

SpecHaptic == InitHaptic /\ [][NextHaptic]_vars

----------------------------------------------------------------------------
(* The two dynamic haptic renderers side by side: pulseInterval of the      *)
(* movement-aware screen (part_004) and of the plain one (part_005) on the  *)
(* same alignment and the same time since the last pulse.                   *)

RendererHeadings == {0, 5, 20, 45, 85, 95, 135, 180, 270, 355}
SincePulse == {100, 300, 500, 800, MAX_PULSE_PERIOD}
MovementConfidences == {Ratio(0, 1), Ratio(4, 10), Ratio(1, 1)}

\* What the hooks report to pulseInterval for an active session.
RendererAlignment(targetHeading, currentHeading) ==
    LET e == alignmentOf(targetHeading, currentHeading, alignThresholdDeg)
    IN [isActive |-> TRUE,
        isAligned |-> e.isAligned,
        targetHeading |-> targetHeading,
        alignmentError |-> e.alignmentError,
        absoluteError |-> e.absoluteError]

\* movementFactor = nav.hasMoved ? Math.min(1, nav.movementConfidence) : 0.5
movementFactor(hasMoved, movementConfidence) ==
    IF hasMoved
    THEN (IF RatioLeq(movementConfidence, Ratio(1, 1))
          THEN movementConfidence ELSE Ratio(1, 1))
    ELSE Ratio(5, 10)

\* pulseInterval of part_004: it computes movementFactor and chooses the
\* style, the period and the pattern without it.
movementAwarePulseInterval(hp, al, hasMoved, movementConfidence) ==
    LET factor == movementFactor(hasMoved, movementConfidence)
    IN pulseInterval(hp, al)

InitRenderers ==
    /\ routes = SampledRoutes
    /\ nav = InitialNavigationState
    /\ heading = NoHeading
    /\ hook = InitialHook
    /\ timeouts = {}
    /\ calRouteId = Null
    /\ calWaypoints = <<>>
    /\ lastOp = Op("mount", "done", <<>>)
    /\ stopped = FALSE
    /\ segment = NewSegment(NoHeading)
    /\ stepHook = InitialStepHook
    /\ haptic = InitialHaptic("part_004")
    /\ movement = InitialMovement
    /\ second = InitialSecond
    /\ input \in [targetHeading : HapticTargets,
                  currentHeading : RendererHeadings,
                  sincePulse : SincePulse,
                  hasMoved : BOOLEAN,
                  movementConfidence : MovementConfidences]
    /\ output = <<>>

\* One run of each pulseInterval, input.sincePulse after the last pulse:
\* result is what part_004 emits, other what part_005 emits.
EvaluateRenderers ==
    /\ output = <<>>
    /\ LET al == RendererAlignment(input.targetHeading, input.currentHeading)
           due(screen) == [InitialHaptic(screen) EXCEPT
                              !.lastPulseRef = input.sincePulse,
                              !.intervalRef = 0]
           aware == movementAwarePulseInterval(due("part_004"), al, input.hasMoved,
                                               input.movementConfidence)
           plain == pulseInterval(due("part_005"), al)
       IN output' = <<[fn |-> "renderers",
                       result |-> [emitted |-> aware.emitted, style |-> aware.style],
                       other |-> [emitted |-> plain.emitted, style |-> plain.style]]>>
    /\ UNCHANGED <<routes, nav, heading, hook, timeouts, calRouteId, calWaypoints,
                   lastOp, stopped, segment, stepHook, input, haptic, movement, second>>

SpecRenderers == InitRenderers /\ [][EvaluateRenderers]_vars

----------------------------------------------------------------------------
(* useHeadingBasedNavigation: movement detection *)

MovementHeadings == {0, 40, 90}
AccelerometerValues == {0, 1, 10}
MovementRepositories ==
    { [r \in RouteIds |-> IF r = "r1" THEN <<Waypoint(0, th), Waypoint(1, 90)>>
                          ELSE <<>>] : th \in TargetHeadings }

\* The heading-based part of calculateStatus's movement detection: hasMoved,
\* and the movementConfidence it assigns before it looks at the accelerometer.
headingTracked(mv, h) ==
    /\ h # NoHeading
    /\ mv.lastHeadingRef # NoHeading
    /\ mv.initialHeadingRef # NoHeading

movementHasMoved(mv, h) ==
    /\ headingTracked(mv, h)
    /\ Abs(normalizeAngleDiff(h, mv.initialHeadingRef))
           > MOVEMENT_HEADING_CHANGE_THRESHOLD

headingConfidence(mv, h) ==
    IF ~movementHasMoved(mv, h) THEN Ratio(0, 1)
    ELSE IF mv.headingStableSinceRef = NoTime THEN Ratio(2, 10)
    ELSE IF Abs(normalizeAngleDiff(h, mv.lastHeadingRef)) < 5
    THEN Ratio(Min(MOVEMENT_STABLE_TIME, mv.headingStableSinceRef),
               MOVEMENT_STABLE_TIME)
    ELSE Ratio(3, 10)

\* calculateStatus of a render: the status it returns and the refs after it
\* (it sets or clears alignedStartTimeRef).  Elapsed times are those of the
\* model's clock; alignedMovementTime is therefore capped at
\* MOVEMENT_STABLE_TIME.
movementStatus(mv, n, rts, h) ==
    LET currentWaypoint == getCurrentWaypoint(n, rts)
        routeOk == n.routeId # Null /\ routeFound(rts, n.routeId)
    IN IF ~n.isActive \/ currentWaypoint = NoWaypoint \/ ~routeOk
       THEN [mv EXCEPT !.status = InactiveMovementStatus]
       ELSE
       LET al == alignmentOf(currentWaypoint.targetHeading, h, alignThresholdDeg)
           hasMoved == movementHasMoved(mv, h)
           accelChanged == /\ headingTracked(mv, h)
                           /\ mv.accelerometerData # NoAccelerometer
                           /\ mv.lastAccelerometerRef # NoAccelerometer
                           /\ Abs(mv.accelerometerData - mv.lastAccelerometerRef)
                                  > ACCELEROMETER_THRESHOLD
           movementConfidence ==
               IF accelChanged /\ RatioLeq(headingConfidence(mv, h), Ratio(4, 10))
               THEN Ratio(4, 10) ELSE headingConfidence(mv, h)
           running == al.isAligned /\ hasMoved
           alignedStartTimeRef ==
               IF ~running THEN NoTime
               ELSE IF mv.alignedStartTimeRef = NoTime THEN 0
               ELSE mv.alignedStartTimeRef
       IN [mv EXCEPT
              !.alignedStartTimeRef = alignedStartTimeRef,
              !.status =
                  [targetIndex |-> n.currentWaypointIndex,
                   isActive |-> TRUE,
                   isAligned |-> al.isAligned,
                   targetHeading |-> currentWaypoint.targetHeading,
                   alignmentError |-> al.alignmentError,
                   absoluteError |-> al.absoluteError,
                   hasMoved |-> hasMoved,
                   movementConfidence |-> movementConfidence,
                   alignedMovementTime |->
                       IF running THEN alignedStartTimeRef ELSE 0]]

\* Effect [navigationState.currentWaypointIndex, navigationState.isActive]:
\* reset of the movement detection.
MovementResetEffect(mv, n, n1, h) ==
    IF /\ <<n1.currentWaypointIndex, n1.isActive>>
              # <<n.currentWaypointIndex, n.isActive>>
       /\ n1.isActive
    THEN [mv EXCEPT !.initialHeadingRef = h,
                    !.lastHeadingRef = h,
                    !.headingChangeDetectedRef = FALSE,
                    !.headingStableSinceRef = NoTime,
                    !.alignedStartTimeRef = NoTime]
    ELSE mv

\* A render of the hook: calculateStatus() in the render, then the effects.
MovementRender(mv, n, n1, h1, rts) ==
    MovementResetEffect(movementStatus(mv, n1, rts, h1), n, n1, h1)

\* The watchHeadingAsync callback's tracking of the heading, before the
\* render its setHeading causes.
trackHeading(mv, value) ==
    IF mv.lastHeadingRef = NoHeading
    THEN [mv EXCEPT !.lastHeadingRef = value, !.initialHeadingRef = value]
    ELSE IF Abs(normalizeAngleDiff(value, mv.lastHeadingRef))
               > MOVEMENT_HEADING_CHANGE_THRESHOLD
    THEN [mv EXCEPT !.headingChangeDetectedRef = TRUE,
                    !.headingStableSinceRef = 0,
                    !.lastHeadingRef = value]
    ELSE [mv EXCEPT !.lastHeadingRef = value]

MovementFrame ==
    UNCHANGED <<routes, hook, timeouts, calRouteId, calWaypoints, stopped,
                segment, stepHook, input, output, haptic, second>>

MovementStep(mv, n1, h1, name) ==
    /\ nav' = n1
    /\ heading' = h1
    /\ movement' = MovementRender(mv, nav, n1, h1, routes)
    /\ lastOp' = Op(name, "done", <<>>)
    /\ MovementFrame

MovementStart ==
    /\ startAccepted(routes, "r1")
    /\ MovementStep(movement, startNavigationState("r1", "dynamic_haptic"), heading,
                    "startNavigation")

MovementStop ==
    /\ nav.isActive
    /\ MovementStep(movement, stopNavigationState(nav), heading, "stopNavigation")

\* advanceToNextWaypoint() from the researcher's button.
MovementAdvance ==
    /\ nav.isActive
    /\ MovementStep(movement, advanceToNextWaypointState(nav, routes), heading,
                    "advanceToNextWaypoint")

\* A sensor callback that sets state to (h1, accelerometer data of seen) and
\* then runs the statements track on the refs: rendered after the callback
\* under batched updates, inside the setter otherwise.
MovementSensorStep(seen, tracked, h1, name) ==
    /\ nav' = nav
    /\ heading' = h1
    /\ movement' = IF movement.batchedUpdates
                   THEN MovementRender(tracked, nav, nav, h1, routes)
                   ELSE LET rendered == MovementRender(seen, nav, nav, h1, routes)
                        IN [tracked EXCEPT
                               !.alignedStartTimeRef = rendered.alignedStartTimeRef,
                               !.status = rendered.status]
    /\ lastOp' = Op(name, "done", <<>>)
    /\ MovementFrame

\* The watchHeadingAsync callback: setHeading(value), then the tracking.
MovementHeadingSample ==
    \E value \in MovementHeadings :
        /\ nav.isActive
        /\ value # heading
        /\ MovementSensorStep(movement, trackHeading(movement, value), value,
                              "headingSample")

\* The accelerometer listener: setAccelerometerData(data);
\* lastAccelerometerRef.current = data.  The data is a new object: the hook
\* renders at every sample.
MovementAccelerometer ==
    \E data \in AccelerometerValues :
        /\ nav.isActive
        /\ MovementSensorStep([movement EXCEPT !.accelerometerData = data],
                              [movement EXCEPT !.accelerometerData = data,
                                               !.lastAccelerometerRef = data],
                              heading, "accelerometer")

\* A quarter of MOVEMENT_STABLE_TIME passes without a render.
MovementElapsed(ref) ==
    IF ref = NoTime THEN NoTime
    ELSE Saturate(ref + MOVEMENT_STABLE_TIME \div 4, MOVEMENT_STABLE_TIME)
MovementTimeElapses ==
    /\ nav.isActive
    /\ \/ MovementElapsed(movement.headingStableSinceRef)
              # movement.headingStableSinceRef
       \/ MovementElapsed(movement.alignedStartTimeRef)
              # movement.alignedStartTimeRef
    /\ movement' = [movement EXCEPT
           !.headingStableSinceRef = MovementElapsed(@),
           !.alignedStartTimeRef = MovementElapsed(@)]
    /\ lastOp' = Op("timeElapses", "done", <<>>)
    /\ UNCHANGED <<nav, heading>>
    /\ MovementFrame

InitMovement ==
    /\ routes \in MovementRepositories
    /\ nav = InitialNavigationState
    /\ heading = NoHeading
    /\ hook = InitialHook
    /\ timeouts = {}
    /\ calRouteId = Null
    /\ calWaypoints = <<>>
    /\ lastOp = Op("mount", "done", <<>>)
    /\ stopped = FALSE
    /\ segment = NewSegment(NoHeading)
    /\ stepHook = InitialStepHook
    /\ input = <<>>
    /\ output = <<>>
    /\ haptic = InitialHaptic("part_004")
    /\ movement \in { [InitialMovement EXCEPT !.batchedUpdates = b] : b \in BOOLEAN }
    /\ second = InitialSecond

NextMovement ==
    \/ MovementStart
    \/ MovementStop
    \/ MovementAdvance
    \/ MovementHeadingSample
    \/ MovementAccelerometer
    \/ MovementTimeElapses

SpecMovement == InitMovement /\ [][NextMovement]_vars

----------------------------------------------------------------------------
(* Specification: navigation over a repository that is not edited *)

NextCommands ==
    \/ StartNavigation
    \/ StopNavigation
    \/ AdvanceButton
    \/ HandleStepTap

NextDetector ==
    \/ HeadingSample
    \/ PolicyAInterval
    \/ PolicyBInterval
    \/ SettleTimeout
    \/ TimeElapses

Next == NextCommands \/ NextDetector

Spec == Init /\ [][Next]_vars

\* Hands-free navigation: one session is started and the operator does nothing
\* more; only the sensor and the timers act.
StartOnce == nav.routeId = Null /\ StartNavigation

NextHandsFree == StartOnce \/ NextDetector

SpecHandsFree == Init /\ [][NextHandsFree]_vars

\* The researcher edits routes on the calibration screen between two timer
\* callbacks of a session: the commands and the authoring handlers.
NextAuthoring ==
    \/ NextCommands
    \/ HandleLoadRoute
    \/ HandleLogPoint
    \/ HandleDeleteWaypoint

SpecAuthoring == Init /\ [][NextAuthoring]_vars

----------------------------------------------------------------------------
(* Two mounted screens that call useIndoorNavigation: AudioNavigationScreen *)
(* and HapticDynamicNavigationScreen are tabs, and a tab stays mounted once *)
(* it was visited.  Each has its own instance of the hook, with its own     *)
(* refs, its own evaluation interval and its own settle timeouts, over the  *)
(* one navigationState of AppContext.  hook and timeouts are those of the   *)
(* audio screen, second those of the haptic screen; both subscriptions      *)
(* deliver the samples of the one compass, so heading stands for the        *)
(* heading state of both.                                                   *)

Screens == {"AudioNavigationScreen", "HapticDynamicNavigationScreen"}
OtherScreen(s) ==
    IF s = "AudioNavigationScreen" THEN "HapticDynamicNavigationScreen"
    ELSE "AudioNavigationScreen"
ScreenHook(s) == IF s = "AudioNavigationScreen" THEN hook ELSE second.hook
ScreenTimeouts(s) == IF s = "AudioNavigationScreen" THEN timeouts ELSE second.timeouts

\* The state a handler of screen s leaves: the session n1, the heading h1, the
\* refs own and the settle timeouts ts of its hook.  rendered: it set React
\* state, so both screens render and run their effects.
TwoScreensStep(s, n1, h1, own, ts, rendered, isStart, op) ==
    LET other == ScreenHook(OtherScreen(s))
        ownAfter == IF rendered THEN RunEffects(own, n1, routes, h1) ELSE own
        otherAfter == IF rendered THEN RunEffects(other, n1, routes, h1) ELSE other
        tsAfter == AfterTransition(ts, nav, n1, isStart)
        otherTs == AfterTransition(ScreenTimeouts(OtherScreen(s)), nav, n1, isStart)
    IN /\ nav' = n1
       /\ heading' = h1
       /\ hook' = IF s = "AudioNavigationScreen" THEN ownAfter ELSE otherAfter
       /\ timeouts' = IF s = "AudioNavigationScreen" THEN tsAfter ELSE otherTs
       /\ second' = IF s = "AudioNavigationScreen"
                    THEN [hook |-> otherAfter, timeouts |-> otherTs]
                    ELSE [hook |-> ownAfter, timeouts |-> tsAfter]
       /\ lastOp' = op
       /\ UNCHANGED <<routes, calRouteId, calWaypoints, stopped, segment,
                      stepHook, input, output, haptic, movement>>

\* The researcher starts a session while none is active.
TwoScreensStart ==
    \E routeId \in RouteIds :
        /\ ~nav.isActive
        /\ startAccepted(routes, routeId)
        /\ TwoScreensStep("AudioNavigationScreen",
                          startNavigationState(routeId, "audio"), heading,
                          hook, timeouts, TRUE, TRUE,
                          Op("startNavigation", "started", <<routeId, "audio">>))

\* A sample of the compass: the watchHeadingAsync callbacks of both hooks.
TwoScreensHeadingSample ==
    \E h \in Headings :
        /\ nav.isActive
        /\ h # heading
        /\ TwoScreensStep("AudioNavigationScreen", nav, h, hook, timeouts,
                          TRUE, FALSE, Op("headingSample", "done", <<>>))

\* The evaluation interval of the hook of screen s is due.
TwoScreensInterval ==
    \E s \in Screens :
        LET hk == ScreenHook(s)
            p == hk.advanceIntervalRef.policy
            r == IF p = "A" THEN PolicyATick(hk, nav, routes, heading)
                 ELSE PolicyBTick(hk, heading)
            period == IF p = "A" THEN ALIGNMENT_CHECK_INTERVAL ELSE POLICY_B_INTERVAL
            hk1 == [r.hook EXCEPT !.advanceIntervalRef =
                       [policy |-> p, remaining |-> period]]
        IN /\ p # "none"
           /\ hk.advanceIntervalRef.remaining = 0
           /\ IF r.arrived
              THEN \* markWaypointReached(); setTimeout(..., 300)
                   TwoScreensStep(s, markWaypointReachedState(nav), heading, hk1,
                                  ScreenTimeouts(s) \cup {NewTimeout(p, routes)},
                                  TRUE, FALSE, Op(p, "arrived", <<s>>))
              ELSE TwoScreensStep(s, nav, heading, hk1, ScreenTimeouts(s),
                                  FALSE, FALSE, Op(p, "checked", <<s>>))

\* A settle timeout of the hook of screen s is due.
TwoScreensSettleTimeout ==
    \E s \in Screens :
        \E t \in ScreenTimeouts(s) :
            LET n1 == advanceToNextWaypointState(nav, t.routes)
                hk1 == [ScreenHook(s) EXCEPT
                           !.alignedStartTimeRef = IF t.policy = "A" THEN NoTime ELSE @,
                           !.advanceIntervalRef = NoInterval]
            IN /\ t.remaining = 0
               /\ TwoScreensStep(s, n1, heading, hk1, ScreenTimeouts(s) \ {t},
                                 advanceApplies(nav, t.routes), FALSE,
                                 Op("settleTimeout",
                                    IF n1 = nav THEN "noop"
                                    ELSE IF t.stale THEN "stale"
                                    ELSE IF t.oldSession THEN "oldSession"
                                    ELSE "fresh", <<s>>))

TwoScreensTimerDue ==
    \E s \in Screens :
        \/ /\ ScreenHook(s).advanceIntervalRef.policy # "none"
           /\ ScreenHook(s).advanceIntervalRef.remaining = 0
        \/ \E t \in ScreenTimeouts(s) : t.remaining = 0

\* 100 ms pass.
TwoScreensTimeElapses ==
    /\ ~TwoScreensTimerDue
    /\ \E s \in Screens :
          \/ ScreenHook(s).advanceIntervalRef.policy # "none"
          \/ ScreenTimeouts(s) # {}
    /\ hook' = HookElapsed(hook)
    /\ timeouts' = { [t EXCEPT !.remaining = @ - 100] : t \in timeouts }
    /\ second' = [hook |-> HookElapsed(second.hook),
                  timeouts |-> { [t EXCEPT !.remaining = @ - 100]
                                 : t \in second.timeouts }]
    /\ lastOp' = Op("timeElapses", "done", <<>>)
    /\ UNCHANGED <<routes, nav, heading, calRouteId, calWaypoints, stopped,
                   segment, stepHook, input, output, haptic, movement>>

NextTwoScreens ==
    \/ TwoScreensStart
    \/ TwoScreensHeadingSample
    \/ TwoScreensInterval
    \/ TwoScreensSettleTimeout
    \/ TwoScreensTimeElapses

SpecTwoScreens == Init /\ [][NextTwoScreens]_vars

----------------------------------------------------------------------------
(* The alignment interval under a compass that keeps delivering samples     *)
(* with changing values.  A timer that is due again and again fires (the    *)
(* event loop runs a callback whose time has come), and time passes.        *)

\* Headings around the target of 90 degrees: one outside the threshold, two
\* within it.
FastHeadings == {60, 85, 95}

InitFastSamples ==
    /\ routes = SampledRoutes
    /\ nav = startNavigationState("r1", "audio")
    /\ heading = NoHeading
    /\ hook = RunEffects(InitialHook, nav, routes, heading)
    /\ timeouts = {}
    /\ calRouteId = Null
    /\ calWaypoints = <<>>
    /\ lastOp = Op("startNavigation", "started", <<"r1", "audio">>)
    /\ stopped = FALSE
    /\ segment = NewSegment(NoHeading)
    /\ stepHook = InitialStepHook
    /\ haptic = InitialHaptic("part_005")
    /\ movement = InitialMovement
    /\ second = InitialSecond
    /\ input = <<>>
    /\ output = <<>>

\* The watchHeadingAsync callback: setHeading(value) with a new value renders
\* the hook, whose auto-advance effect (heading is one of its dependencies)
\* clears the interval and creates it again.
FastHeadingSample ==
    \E h \in FastHeadings :
        /\ nav.isActive
        /\ h # heading
        /\ heading' = h
        /\ hook' = RunEffects(hook, nav, routes, h)
        /\ lastOp' = Op("headingSample", "done", <<>>)
        /\ UNCHANGED <<routes, nav, timeouts, calRouteId,
                       calWaypoints, stopped>>
        /\ OutsideStepScreen

NextFastSamples ==
    \/ FastHeadingSample
    \/ PolicyAInterval
    \/ SettleTimeout
    \/ TimeElapses

SpecFastSamples ==
    /\ InitFastSamples
    /\ [][NextFastSamples]_vars
    /\ SF_vars(PolicyAInterval)
    /\ SF_vars(SettleTimeout)
    /\ WF_vars(TimeElapses)

----------------------------------------------------------------------------
(* Properties *)

SessionRoute == getRoute(routes, nav.routeId)
AdvanceOps == {"advanceButton", "settleTimeout"}
CallbackOps == {"settleTimeout", "A", "B", "headingSample"}
\* The pending settle timeouts scheduled for the current waypoint of the
\* current session.
CurrentTimeouts == { t \in timeouts : ~t.stale /\ ~t.oldSession }

\* C1: a settle timeout that was scheduled while an earlier waypoint was
\* current never changes the session: every advance a settle timeout commits
\* was requested for the waypoint that is current when it is applied.
C1_NoStaleAdvance ==
    lastOp.name = "settleTimeout" => lastOp.outcome # "stale"

\* C2: a Policy A tick signals Arrived only if no settle timeout of the
\* current waypoint is already running: after a signal exactly one advance is
\* scheduled for the waypoint.
C2_OneAdvancePerArrival ==
    (lastOp.name = "A" /\ lastOp.outcome = "arrived")
        => Cardinality(CurrentTimeouts) = 1

\* C3: after stopNavigation and until the next start, no timer, interval or
\* sensor callback changes a field of navigationState.
C3_NoCallbackAfterStop ==
    [][(stopped /\ lastOp'.name \in CallbackOps) => nav' = nav]_vars

\* C4: a startNavigation that does not start reports a ConfigurationError to
\* its caller and leaves navigationState unchanged.
C4_RejectedStartReported ==
    [][(lastOp'.name = "startNavigation" /\ lastOp'.outcome # "started")
          => (lastOp'.outcome = "ConfigurationError" /\ nav' = nav)]_vars

\* C5: after an accepted startNavigation(routeId, mode) the session is active
\* at waypoint 0 with step count 0, not reached, and holds the two arguments,
\* whatever it held before.
C5_StartState ==
    (lastOp.name = "startNavigation" /\ lastOp.outcome = "started")
        => /\ nav.isActive
           /\ nav.currentWaypointIndex = 0
           /\ nav.currentStepCount = 0
           /\ ~nav.reachedCurrentWaypoint
           /\ <<nav.routeId, nav.feedbackMode>> = lastOp.args
           /\ Len(SessionRoute) >= 1

\* A start was accepted while a settle timeout of the previous session, already
\* overtaken by an advance, was still pending.
C5_Witness ==
    /\ lastOp.name = "startNavigation" /\ lastOp.outcome = "started"
    /\ \E t \in timeouts : t.oldSession /\ t.stale

\* C6: while the session is active, 0 <= currentWaypointIndex < number of
\* waypoints of its route, over every sequence of commands and callbacks on a
\* repository that is not edited.
C6_IndexInRange ==
    nav.isActive =>
        /\ 0 <= nav.currentWaypointIndex
        /\ nav.currentWaypointIndex < Len(SessionRoute)

\* A settle timeout advanced the session onto the last waypoint of its route.
C6_Witness ==
    /\ lastOp.name = "settleTimeout"
    /\ nav.isActive
    /\ nav.currentWaypointIndex >= 1
    /\ nav.currentWaypointIndex = Len(SessionRoute) - 1

\* C7: an advance applied while the current waypoint is the last one of the
\* route makes the session inactive and leaves currentWaypointIndex alone.
C7_AdvanceAtEndCompletes ==
    [][(/\ lastOp'.name \in AdvanceOps
        /\ nav.routeId # Null
        /\ nav.currentWaypointIndex + 1 >= Len(SessionRoute))
          => (/\ ~nav'.isActive
              /\ nav'.currentWaypointIndex = nav.currentWaypointIndex)]_vars

\* The researcher's advance on the last waypoint completed the session.
C7_Witness ==
    /\ lastOp.name = "advanceButton"
    /\ ~nav.isActive
    /\ nav.currentWaypointIndex + 1 = Len(SessionRoute)

\* C8: an advance applied while the current waypoint is not the last one
\* adds 1 to currentWaypointIndex, sets currentStepCount to 0 and
\* reachedCurrentWaypoint to false, and keeps isActive, routeId, feedbackMode.
C8_AdvanceToNext ==
    [][(/\ lastOp'.name \in AdvanceOps
        /\ nav.routeId # Null
        /\ nav.currentWaypointIndex + 1 < Len(SessionRoute))
          => (/\ nav'.currentWaypointIndex = nav.currentWaypointIndex + 1
              /\ nav'.currentStepCount = 0
              /\ ~nav'.reachedCurrentWaypoint
              /\ nav'.isActive = nav.isActive
              /\ nav'.routeId = nav.routeId
              /\ nav'.feedbackMode = nav.feedbackMode)]_vars

\* A settle timeout of the current waypoint advanced an active session.
C8_Witness ==
    /\ lastOp.name = "settleTimeout" /\ lastOp.outcome = "fresh"
    /\ nav.isActive
    /\ nav.currentWaypointIndex = 1

\* C9: an active session's route is in the repository and has a waypoint,
\* also while the researcher deletes waypoints of the route.
C9_ActiveRouteHasWaypoint ==
    nav.isActive => (routeFound(routes, nav.routeId) /\ Len(SessionRoute) >= 1)

\* C10: markWaypointReached (the Arrived signal of an interval callback) sets
\* reachedCurrentWaypoint and changes no other field of navigationState.
C10_MarkReachedFrame ==
    [][lastOp'.outcome = "arrived"
          => (/\ nav'.reachedCurrentWaypoint
              /\ nav'.currentWaypointIndex = nav.currentWaypointIndex
              /\ nav'.isActive = nav.isActive
              /\ nav'.currentStepCount = nav.currentStepCount
              /\ nav'.routeId = nav.routeId
              /\ nav'.feedbackMode = nav.feedbackMode)]_vars

\* An arrival was latched on a segment on which a step had been counted.
C10_Witness ==
    /\ lastOp.outcome = "arrived"
    /\ nav.reachedCurrentWaypoint
    /\ nav.currentStepCount > 0

\* The step gate of the rendered state.
StepStatus == calculateStatus(nav, routes, heading)
WaypointNow == getCurrentWaypoint(nav, routes)
\* The user faces the target of the current waypoint within the threshold, or
\* the waypoint has no target.
FacingTarget ==
    \/ WaypointNow.targetHeading = NoHeading
    \/ /\ heading # NoHeading
       /\ normalizeAngleDiff(heading, WaypointNow.targetHeading) <= alignThresholdDeg
       /\ normalizeAngleDiff(heading, WaypointNow.targetHeading) >= -alignThresholdDeg

\* C11: on a waypoint with requiredSteps = n, canAdvance holds exactly when
\* currentStepCount >= n and the user is aligned (a waypoint without target
\* heading counting as aligned): false below n steps, true from n steps on.
C11_CanAdvance ==
    (nav.isActive /\ WaypointNow # NoWaypoint
        /\ WaypointNow.stepCountToNext # NoSteps)
        => (StepStatus.canAdvance
              <=> (nav.currentStepCount >= WaypointNow.stepCountToNext
                   /\ FacingTarget))

\* A tap brought the count to the required number (more than one step) and
\* the gate is open.
C11_Witness ==
    /\ lastOp.name = "handleStepTap"
    /\ nav.isActive
    /\ WaypointNow.stepCountToNext = MaxRequiredSteps
    /\ nav.currentStepCount = MaxRequiredSteps
    /\ WaypointNow.targetHeading # NoHeading
    /\ StepStatus.canAdvance

\* C12: in step-based mode no handler leaves the session on a waypoint that is
\* not the last with canAdvance true: the advance is committed by the
\* evaluation that follows the event which made canAdvance hold.
C12_AdvanceOnFirstEvaluation ==
    ~(nav.isActive /\ StepStatus.isActive /\ ~StepStatus.isFinalSegment
        /\ StepStatus.canAdvance)

\* The step of a behaviour is an IncrementStep that raised the count by 1.
StepCounted ==
    /\ lastOp'.name = "handleStepTap"
    /\ nav'.currentStepCount = nav.currentStepCount + 1

\* The step is a waypoint transition (a start, or an advance to a next
\* waypoint) that set the count to 0.
StepCountResetByTransition ==
    /\ \/ lastOp'.name = "startNavigation"
       \/ /\ lastOp'.name \in AdvanceOps
          /\ nav'.currentWaypointIndex = nav.currentWaypointIndex + 1
    /\ nav'.currentStepCount = 0

\* C13 as stated: currentStepCount changes only by an IncrementStep, by 1, or
\* by a waypoint transition (Start, Advance to a next waypoint), to 0.
C13_StepCountChanges ==
    [][nav'.currentStepCount # nav.currentStepCount
          => (StepCounted \/ StepCountResetByTransition)]_vars

\* C13 amended: currentStepCount changes only by an IncrementStep, by 1, or, to
\* 0, by a waypoint transition (Start, Advance to a next waypoint) or by Stop.
C13_StepCountChangesOrStop ==
    [][nav'.currentStepCount # nav.currentStepCount
          => \/ StepCounted
             \/ StepCountResetByTransition
             \/ lastOp'.name = "stopNavigation" /\ nav'.currentStepCount = 0]_vars

\* A session stopped on its second waypoint: its step count is 0.
C13_Witness ==
    /\ lastOp.name = "stopNavigation"
    /\ nav.currentWaypointIndex >= 1
    /\ nav.currentStepCount = 0
    /\ ~nav.isActive

\* C14: navigation completes without the operator: while the session is
\* active on the last waypoint of its route and the user satisfies its arrival
\* condition, an evaluation interval or a settle timeout is pending that will
\* commit the final advance.
C14_FinalWaypointWatched ==
    (/\ nav.isActive
     /\ WaypointNow # NoWaypoint
     /\ nav.currentWaypointIndex = Len(SessionRoute) - 1
     /\ WaypointNow.targetHeading # NoHeading
     /\ heading # NoHeading
     /\ FacingTarget)
        => (hook.advanceIntervalRef.policy # "none" \/ timeouts # {})

\* The tick-to-tick heading delta the heading-change detector computes.
RecentChange == Abs(normalizeAngleDiff(heading, hook.lastHeadingRef))

\* C16: the heading-change detector signals Arrived only after a tick of the
\* current segment has seen the heading HEADING_CHANGE_THRESHOLD away from the
\* heading the segment began with, and once the tick-to-tick delta has stayed
\* below 5 degrees for HEADING_STABLE_DURATION; a tick that sees a delta of 5
\* degrees or more after the detection restarts the stabilization clock at
\* that tick and keeps the detection.
C16_ArrivedAfterChangeAndStability ==
    [][lastOp'.name = "B"
          => /\ lastOp'.outcome = "arrived"
                  => /\ segment'.changeDetected
                     /\ hook.headingStableSinceRef >= HEADING_STABLE_DURATION
                     /\ RecentChange < 5
             /\ (/\ hook.headingChangeDetectedRef
                 /\ hook.headingStableSinceRef # NoTime
                 /\ RecentChange >= 5)
                  => /\ hook'.headingStableSinceRef = 0
                     /\ hook'.headingChangeDetectedRef]_vars

\* The sample evaluated by tick i is within the threshold of the target.
SampleAligned(i) ==
    /\ input.samples[i] - SampledWaypoints[1].targetHeading <= input.thresholdDeg
    /\ SampledWaypoints[1].targetHeading - input.samples[i] <= input.thresholdDeg

AlignmentEvaluated == output # <<>> /\ output[1].fn = "calculateAlignment"
AngleDiffEvaluated == output # <<>> /\ output[1].fn = "normalizeAngleDiff"

\* C17: a waypoint without target heading is reported as aligned, with
\* alignmentError and absoluteError absent, for every current heading and
\* when no heading was sampled yet.
C17_DirectionlessAligned ==
    (AlignmentEvaluated /\ input.targetHeading = NoHeading)
        => /\ output[1].result.isAligned
           /\ output[1].result.alignmentError = NoError
           /\ output[1].result.absoluteError = NoError

\* A waypoint without target was evaluated before any heading was sampled.
C17_Witness ==
    /\ AlignmentEvaluated
    /\ input.targetHeading = NoHeading
    /\ input.currentHeading = NoHeading
    /\ output[1].result.isAligned

\* C18: while the current waypoint has a target heading and no heading is
\* available, the alignment is reported as not aligned with the errors absent,
\* the interval signals no Arrived, and no settle timeout is pending or has
\* just advanced the session.
C18_NoHeadingNotAligned ==
    (/\ nav.isActive
     /\ WaypointNow # NoWaypoint
     /\ WaypointNow.targetHeading # NoHeading
     /\ heading = NoHeading)
        => /\ ~calculateAlignment(nav, routes, heading).isAligned
           /\ alignmentOf(WaypointNow.targetHeading, heading,
                          alignThresholdDeg).alignmentError = NoError
           /\ lastOp.outcome # "arrived"
           /\ lastOp.name # "settleTimeout"
           /\ ~nav.reachedCurrentWaypoint
           /\ timeouts = {}

\* The alignment interval ran on a waypoint with a target before any heading
\* was sampled, and opened no confirmation window.
C18_Witness ==
    /\ nav.isActive
    /\ WaypointNow # NoWaypoint
    /\ WaypointNow.targetHeading # NoHeading
    /\ heading = NoHeading
    /\ lastOp = Op("A", "checked", <<>>)
    /\ hook.alignedStartTimeRef = NoTime

\* The smaller of the two arcs between two compass headings.
CircularDistance(a, b) ==
    LET d == (b - a) % 360 IN IF d <= 180 THEN d ELSE 360 - d

\* C19: with both headings present, isAligned holds exactly when the absolute
\* value of normalizeAngleDiff(currentHeading, targetHeading), which is the
\* smaller arc between the two headings, is at most the threshold; a heading
\* evaluated against itself is aligned for every threshold >= 0.
C19_AlignedWithinThreshold ==
    (/\ AlignmentEvaluated
     /\ input.targetHeading # NoHeading
     /\ input.currentHeading # NoHeading)
        => /\ output[1].result.isAligned
                  <=> Abs(normalizeAngleDiff(input.currentHeading,
                                             input.targetHeading))
                          <= input.thresholdDeg
           /\ output[1].result.isAligned
                  <=> CircularDistance(input.currentHeading, input.targetHeading)
                          <= input.thresholdDeg
           /\ input.currentHeading = input.targetHeading
                  => output[1].result.isAligned

\* A heading was evaluated against itself with threshold 0.
C19_Witness ==
    /\ AlignmentEvaluated
    /\ input.currentHeading # NoHeading
    /\ input.currentHeading = input.targetHeading
    /\ input.thresholdDeg = 0
    /\ output[1].result.isAligned

\* The two headings are exactly opposite.
Opposite == CircularDistance(input.currentHeading, input.targetHeading) = 180

\* C20 (as stated): for headings in [0, 360) normalizeAngleDiff lies in
\* (-180, 180], and for exactly opposite headings it is +180, never -180.
C20_HalfOpenRange ==
    AngleDiffEvaluated
        => /\ output[1].result > -180
           /\ output[1].result <= 180
           /\ Opposite => output[1].result = 180

\* C20 (amended): for headings in [0, 360) normalizeAngleDiff lies in
\* [-180, 180]; for exactly opposite headings it is +180 when the target is
\* the larger and -180 when the current heading is the larger, and otherwise
\* it lies strictly between the two.
C20_ClosedRange ==
    AngleDiffEvaluated
        => /\ output[1].result >= -180
           /\ output[1].result <= 180
           /\ Opposite
                  => output[1].result =
                         (IF input.targetHeading > input.currentHeading
                          THEN 180 ELSE -180)
           /\ ~Opposite
                  => (output[1].result > -180 /\ output[1].result < 180)

\* normalizeAngleDiff was applied to current 180 and target 0.
C20_Witness ==
    /\ AngleDiffEvaluated
    /\ input.currentHeading = 180
    /\ input.targetHeading = 0
    /\ output[1].result = -180

\* The clockwise arc from the current heading to the target.
ClockwiseArc == (input.targetHeading - input.currentHeading) % 360

\* C21: normalizeAngleDiff(a, b) differs from b - a by a multiple of 360; it
\* is 0 when a = b, positive when the clockwise arc from the current heading
\* to the target is the shorter one and negative when the counter-clockwise
\* arc is the shorter one.
C21_DifferenceModulo360 ==
    AngleDiffEvaluated
        => /\ (output[1].result
                  - (input.targetHeading - input.currentHeading)) % 360 = 0
           /\ input.currentHeading = input.targetHeading => output[1].result = 0
           /\ (ClockwiseArc > 0 /\ ClockwiseArc < 180) => output[1].result > 0
           /\ ClockwiseArc > 180 => output[1].result < 0

\* normalizeAngleDiff wrapped a raw difference of -340 to a right turn of 20.
C21_Witness ==
    /\ AngleDiffEvaluated
    /\ input.currentHeading = 350
    /\ input.targetHeading = 10
    /\ output[1].result = 20

\* C29: after every accepted startNavigation the per-waypoint trackers of the
\* hook are reset: no confirmation window is open, the segment's start
\* heading and the last heading are the current heading, no heading change is
\* recorded as detected and no stabilization clock is running.
C29_StartResetsTrackers ==
    (lastOp.name = "startNavigation" /\ lastOp.outcome = "started")
        => /\ hook.alignedStartTimeRef = NoTime
           /\ hook.initialHeadingRef = heading
           /\ hook.lastHeadingRef = heading
           /\ ~hook.headingChangeDetectedRef
           /\ hook.headingStableSinceRef = NoTime

\* C30: a session at waypoint 0 leaves it through a settle timeout only after
\* an arrival was confirmed for its own waypoint 0; a timeout left pending by
\* the session before the last startNavigation does not advance it.
C30_NewSessionKeepsIndex ==
    [][(/\ lastOp'.name = "settleTimeout"
        /\ nav.isActive
        /\ nav.currentWaypointIndex = 0
        /\ nav' # nav)
          => nav.reachedCurrentWaypoint]_vars

PulseEvaluated == output # <<>> /\ output[1].fn = "pulseInterval"
MapRangeEvaluated == output # <<>> /\ output[1].fn = "mapRange"

\* C24: the pulse pattern is the double pulse for a strictly positive
\* alignment error and the single pulse for an error that is zero or
\* negative; two errors of the same sign get the same pattern.
C24_PatternBySign ==
    PulseEvaluated
        => /\ input.value > 0 => output[1].result.pattern = "double"
           /\ input.value <= 0 => output[1].result.pattern = "single"
           /\ ((input.value > 0) <=> (input.other > 0))
                  => output[1].result.pattern = output[1].other.pattern

\* Two errors of different size and the same sign were given the double
\* pulse.
C24_Witness ==
    /\ PulseEvaluated
    /\ input.value = 5
    /\ input.other = 180
    /\ output[1].result.pattern = "double"
    /\ output[1].other.pattern = "double"

\* C25: mapRange(absError, 0, 180, 200, 1200) is 200 for absError <= 0, 1200
\* for absError >= 180, within [200, 1200] for every input, and
\* non-decreasing in absError.
C25_MapRangeClamped ==
    MapRangeEvaluated
        => /\ input.value <= 0 => RatioEq(output[1].result, Ratio(200, 1))
           /\ input.value >= 180 => RatioEq(output[1].result, Ratio(1200, 1))
           /\ RatioLeq(Ratio(200, 1), output[1].result)
           /\ RatioLeq(output[1].result, Ratio(1200, 1))
           /\ input.value <= input.other
                  => RatioLeq(output[1].result, output[1].other)

\* mapRange was applied to -10 and to 200.
C25_Witness ==
    /\ MapRangeEvaluated
    /\ input.value = -10
    /\ input.other = 200
    /\ RatioEq(output[1].result, Ratio(200, 1))
    /\ RatioEq(output[1].other, Ratio(1200, 1))

\* The strength of an impact style.
StyleRank(style) ==
    IF style = "Heavy" THEN 3 ELSE IF style = "Medium" THEN 2 ELSE 1

\* C26: the impact style is Heavy for absError < 10, Medium for
\* 10 <= absError < 30 and Light for absError >= 30, and the style of a larger
\* absolute error is never the stronger one.
C26_IntensityTier ==
    PulseEvaluated
        => /\ Abs(input.value) < 10 => output[1].result.style = "Heavy"
           /\ (Abs(input.value) >= 10 /\ Abs(input.value) < 30)
                  => output[1].result.style = "Medium"
           /\ Abs(input.value) >= 30 => output[1].result.style = "Light"
           /\ Abs(input.value) <= Abs(input.other)
                  => StyleRank(output[1].result.style)
                         >= StyleRank(output[1].other.style)

\* The two boundaries: an error of 10 is Medium, an error of 30 is Light.
C26_Witness ==
    /\ PulseEvaluated
    /\ input.value = 10
    /\ input.other = -30
    /\ output[1].result.style = "Medium"
    /\ output[1].other.style = "Light"

\* C27: stepProgress is min(100, 100 * currentStepCount / requiredSteps) when
\* the current waypoint has requiredSteps > 0 and 0 otherwise; it is within
\* [0, 100], and a step tap that leaves the session on the same waypoint does
\* not decrease it.
C27_StepProgress ==
    [][LET before == calculateStatus(nav, routes, heading)
           after == calculateStatus(nav', routes', heading')
           required == after.requiredStepCount
       IN /\ RatioLeq(Ratio(0, 1), after.stepProgress)
          /\ RatioLeq(after.stepProgress, Ratio(100, 1))
          /\ IF after.isActive /\ required # NoSteps /\ required > 0
             THEN RatioEq(after.stepProgress,
                          IF nav'.currentStepCount >= required
                          THEN Ratio(100, 1)
                          ELSE Ratio(100 * nav'.currentStepCount, required))
             ELSE RatioEq(after.stepProgress, Ratio(0, 1))
          /\ (/\ lastOp'.name = "handleStepTap"
              /\ nav'.isActive
              /\ nav'.currentWaypointIndex = nav.currentWaypointIndex)
                 => RatioLeq(before.stepProgress, after.stepProgress)]_vars

\* A tap brought the progress to one half: one step of two.
C27_Witness ==
    /\ lastOp.name = "handleStepTap"
    /\ nav.isActive
    /\ nav.currentStepCount = 1
    /\ StepStatus.requiredStepCount = 2
    /\ RatioEq(StepStatus.stepProgress, Ratio(50, 1))

\* The alignment the haptic screen renders.
HapticNow == HapticAlignment(nav, routes, heading)

\* C22: no pulse impact, first or delayed second, is delivered while the
\* continuous vibration is on.
C22_PulseOrContinuous ==
    (lastOp.name \in {"pulseInterval", "secondImpact"} /\ lastOp.outcome # "none")
        => ~haptic.vibratingRef

\* C23: whenever the session is active and the user is aligned, the focused
\* haptic screen has the continuous vibration on, also when the user is
\* aligned because the current waypoint has no target heading.
C23_AlignedVibrates ==
    (nav.isActive /\ haptic.isFocused /\ HapticNow.isAligned)
        => haptic.vibratingRef

\* C28: the status rendered right after an advance to a new waypoint reports
\* hasMoved = false and alignedMovementTime = 0, whatever the heading did on
\* the previous waypoint.
C28_FreshMovementStatus ==
    [][(/\ lastOp'.name = "advanceToNextWaypoint"
        /\ nav'.isActive
        /\ nav'.currentWaypointIndex # nav.currentWaypointIndex)
          => /\ ~movement'.status.hasMoved
             /\ movement'.status.alignedMovementTime = 0]_vars

\* C31: with two screens mounted that run the arrival detector, a settle
\* timeout of one screen advances the session only if the other screen holds
\* no pending settle timeout of its own for the same waypoint of the same
\* session: one satisfied arrival condition is followed by one advance.
C31_OneAdvancePerArrival ==
    [][\A s \in Screens :
          (/\ lastOp'.name = "settleTimeout"
           /\ lastOp'.args = <<s>>
           /\ nav' # nav)
             => \A t \in ScreenTimeouts(OtherScreen(s)) : t.stale \/ t.oldSession]_vars

\* The user faces the target of the first waypoint of the sampled route
\* within the threshold of the screens.
FacingSampledTarget ==
    /\ heading # NoHeading
    /\ Abs(normalizeAngleDiff(heading, SampledWaypoints[1].targetHeading))
           <= alignThresholdDeg

\* Arrived was signalled for the first waypoint.
ArrivedAtFirst == nav.reachedCurrentWaypoint \/ nav.currentWaypointIndex > 0

\* C32: on the first (non-final) waypoint, whose target is 90, if from some
\* moment on every heading sample is within the threshold, then Arrived is
\* eventually signalled, however often samples with changing values arrive.
C32_AlignedEventuallyArrives ==
    (<>[]FacingSampledTarget) => <>ArrivedAtFirst

\* The evaluation interval the hook has scheduled, if any.
ScheduledPolicy == hook.advanceIntervalRef.policy

MovementSample == lastOp'.name \in {"headingSample", "accelerometer"}

\* C34: within a waypoint segment hasMoved is latched: a status with hasMoved
\* true that a sample of the segment produced is followed, at the next sample
\* of the segment, by a status with hasMoved true, also when the heading is
\* back at the heading the segment started with.
C34_HasMovedLatched ==
    [][(/\ lastOp.name \in {"headingSample", "accelerometer"}
        /\ movement.status.hasMoved
        /\ MovementSample)
          => movement'.status.hasMoved]_vars

\* C35: every status reports a movementConfidence within [0, 1], and 0 when
\* hasMoved is false.
C35_ConfidenceZeroUnlessMoved ==
    /\ RatioLeq(Ratio(0, 1), movement.status.movementConfidence)
    /\ RatioLeq(movement.status.movementConfidence, Ratio(1, 1))
    /\ ~movement.status.hasMoved
          => RatioEq(movement.status.movementConfidence, Ratio(0, 1))

\* C36: when an accelerometer sample differs from the sample before it by
\* more than ACCELEROMETER_THRESHOLD and the user has moved, the status
\* rendered for the sample reports the larger of 0.4 and the heading-based
\* estimate.
C36_AccelerometerFloor ==
    [][(/\ lastOp'.name = "accelerometer"
        /\ movement.lastAccelerometerRef # NoAccelerometer
        /\ Abs(movement'.accelerometerData - movement.lastAccelerometerRef)
               > ACCELEROMETER_THRESHOLD
        /\ movement'.status.hasMoved)
          => LET estimate == headingConfidence(movement', heading')
             IN /\ RatioLeq(Ratio(4, 10), movement'.status.movementConfidence)
                /\ RatioEq(movement'.status.movementConfidence,
                           IF RatioLeq(estimate, Ratio(4, 10))
                           THEN Ratio(4, 10) ELSE estimate)]_vars

\* The status reports the user as aligned and moved.
AlignedAndMoved(status) == status.isAligned /\ status.hasMoved

\* C37: a status in which aligned or hasMoved is false reports
\* alignedMovementTime 0, and the first status in which both hold again
\* reports 0 as well: the time of an earlier run is not carried over.
C37_UnbrokenRun ==
    [][lastOp'.name # "timeElapses"
          => /\ ~AlignedAndMoved(movement'.status)
                    => movement'.status.alignedMovementTime = 0
             /\ (AlignedAndMoved(movement'.status)
                    /\ ~AlignedAndMoved(movement.status))
                    => movement'.status.alignedMovementTime = 0]_vars

RenderersEvaluated == output # <<>> /\ output[1].fn = "renderers"

\* C38: for the same alignment and the same time since the last pulse, the
\* movement-aware renderer and the plain one emit a pulse at the same runs of
\* the interval and with the same pattern, and the style of the
\* movement-aware renderer is never the weaker one, whatever hasMoved and
\* movementConfidence are.
C38_RenderersAgree ==
    RenderersEvaluated
        => /\ output[1].result.emitted = output[1].other.emitted
           /\ output[1].other.emitted # "none"
                  => StyleRank(output[1].result.style)
                         >= StyleRank(output[1].other.style)

\* The order values of a list are its 0-based positions.
OrderIsPosition(ws) == \A i \in 1..Len(ws) : ws[i].order = i - 1

\* C39: after any sequence of log-waypoint and delete-waypoint operations on
\* the route being authored, the order values of its waypoints are exactly
\* 0..n-1 in list position, on the screen and in the stored route.
C39_OrderIsPosition ==
    /\ OrderIsPosition(calWaypoints)
    /\ calRouteId # Null => OrderIsPosition(getRoute(routes, calRouteId))

\* Two waypoints were on the list and the first one has just been deleted:
\* the one that remains was at order 1 and is now at order 0.
C39_Witness ==
    /\ lastOp.name = "handleDeleteWaypoint"
    /\ lastOp.args = <<1>>
    /\ calRouteId # Null
    /\ Len(calWaypoints) = 1
    /\ calWaypoints[1].order = 0
    /\ getRoute(routes, calRouteId) = calWaypoints

\* C40: Stop makes the session inactive and sets reachedCurrentWaypoint to
\* false and currentStepCount to 0, leaves routeId, feedbackMode and
\* currentWaypointIndex unchanged, and a second Stop changes nothing more.
C40_StopFrame ==
    [][lastOp'.name = "stopNavigation" =>
        /\ ~nav'.isActive
        /\ ~nav'.reachedCurrentWaypoint
        /\ nav'.currentStepCount = 0
        /\ nav'.routeId = nav.routeId
        /\ nav'.feedbackMode = nav.feedbackMode
        /\ nav'.currentWaypointIndex = nav.currentWaypointIndex
        /\ stopNavigationState(nav') = nav']_vars

\* A session that had advanced past its first waypoint has been stopped and
\* still names its route, its feedback mode and the waypoint it was on.
C40_Witness ==
    /\ lastOp.name = "stopNavigation"
    /\ ~nav.isActive
    /\ ~nav.reachedCurrentWaypoint
    /\ nav.routeId # Null
    /\ nav.feedbackMode # Null
    /\ nav.currentWaypointIndex = 1
    /\ Len(getRoute(routes, nav.routeId)) = 2

=============================================================================
